---- MODULE Spec2Model ----
(***************************************************************************)
(* Model of the rosa provider of osde2e-framework: the cluster lifecycle   *)
(* (CreateCluster / DeleteCluster), the account-role and OIDC-config       *)
(* helpers, the hosted-control-plane VPC helper and the polling loops.     *)
(*                                                                         *)
(* Strings the code inspects (prefix tests, substring tests, emptiness,    *)
(* quote stripping, version parsing) are sequences of tokens; strings the  *)
(* code only passes along (ids, role ARNs) are TLA+ strings, "" = empty.   *)
(* An error value is the chain of its wrappers, outermost first; NoErr is  *)
(* Go's nil error.                                                         *)
(***************************************************************************)
EXTENDS Integers, Sequences, FiniteSets, TLC

VARIABLES
    op,            \* the entry point this behaviour exercises
    pc,            \* position inside the entry point
    options,       \* *CreateClusterOptions / *DeleteClusterOptions of the call
    awsRoles,      \* external: what `rosa list account-roles` answers
    calls,         \* external commands / API requests issued, in order
    steps,         \* sub-operations of the entry point started, in order
    okSteps,       \* sub-operations that returned a nil error
    attempts,      \* clusterReadyAttempts / clusterDeletedAttempts
    i,             \* loop counter of the running poll
    predCalls,     \* describe / lookup calls made by the running poll
    clusterState,  \* last state the running poll observed
    clusterID,     \* CreateCluster's clusterID local
    oidcConfigID,  \* DeleteCluster's oidcConfigID local
    ensured,       \* results of the createAccountRoles / createOIDCConfig calls
                   \* made so far by the entry point that calls them on their own
    cancelledAt,   \* -1, or the poll's predicate calls made when ctx was cancelled
    environ,       \* the process environment (os.Setenv / os.Unsetenv)
    ret,           \* what the entry point returned
    invocations,   \* the CreateCluster calls running concurrently in the process
    tmpDir,        \* what the working directory "/tmp" holds
    flow           \* CreateCluster: what its sub-operations were handed and returned

vars == <<op, pc, options, awsRoles, calls, steps, okSteps, attempts, i,
          predCalls, clusterState, clusterID, oidcConfigID, ensured, cancelledAt,
          environ, ret, invocations, tmpDir, flow>>

----------------------------------------------------------------------------
(* Bounds of the model                                                     *)

\* largest number of roles in the initial account-role listing
MaxRoles == 4
\* largest attempt budget handed to a poll that is exercised on its own
MaxAttempts == 3

\* condition calls that fit into the time window of the node readiness poll
MaxPolls == 3

----------------------------------------------------------------------------
(* Strings and errors                                                      *)

NoErr == <<>>

Wrap(tag, err) == <<tag>> \o err

\* strings.HasPrefix
HasPrefix(s, prefix) ==
    /\ Len(prefix) <= Len(s)
    /\ SubSeq(s, 1, Len(prefix)) = prefix

\* strings.Contains
Contains(s, substr) ==
    \E k \in 0..(Len(s) - Len(substr)) : SubSeq(s, k + 1, k + Len(substr)) = substr

\* strings.ReplaceAll(s, "\"", "")
IsNotQuote(c) == c # "\""

StripQuotes(s) == SelectSeq(s, IsNotQuote)

NumTokens == {"0", "4", "6", "12", "13"}

\* semver.NewVersion: one to three numeric parts, missing parts are 0
NewVersion(v) ==
    IF Len(v) \in 1..3 /\ \A k \in 1..Len(v) : v[k] \in NumTokens
    THEN [ok |-> TRUE,
          major |-> v[1],
          minor |-> IF Len(v) >= 2 THEN v[2] ELSE "0"]
    ELSE [ok |-> FALSE, major |-> "0", minor |-> "0"]

\* fmt.Sprintf("%d.%d", version.Major(), version.Minor())
MajorMinor(v) == <<NewVersion(v).major, NewVersion(v).minor>>

----------------------------------------------------------------------------
(* Account roles                                                           *)

\* the zero value of the accountRoles struct
accountRoles ==
    [controlPlaneRoleARN |-> "", installerRoleARN |-> "",
     supportRoleARN |-> "", workerRoleARN |-> ""]

RoleTypes == {"Control plane", "Installer", "Support", "Worker"}

RoleEntry(name, type, version, arn) ==
    [RoleName |-> name, RoleType |-> type, Version |-> version, RoleARN |-> arn]

\* the roles an AWS account may already hold, in listing order
RoleCatalog ==
    << RoleEntry(<<"c", "1", "-", "ControlPlane">>, "Control plane", <<"4", "12">>, "arn:c1-cp"),
       RoleEntry(<<"c", "1", "-", "Installer">>, "Installer", <<"4", "12">>, "arn:c1-in"),
       RoleEntry(<<"c", "1", "-", "Support">>, "Support", <<"4", "12">>, "arn:c1-su"),
       RoleEntry(<<"c", "1", "-", "Worker">>, "Worker", <<"4", "12">>, "arn:c1-wo"),
       RoleEntry(<<"c", "1", "x", "-", "Installer">>, "Installer", <<"4", "12">>, "arn:c1x-in"),
       RoleEntry(<<"c", "1", "x", "-", "Worker">>, "Worker", <<"4", "12">>, "arn:c1x-wo"),
       RoleEntry(<<"z", "-", "Worker">>, "Worker", <<"4", "12">>, "arn:z-wo"),
       RoleEntry(<<"c", "1", "-", "Support">>, "Support", <<"4", "13">>, "arn:c1-su-413"),
       RoleEntry(<<"c", "1", "-", "User">>, "User", <<"4", "12">>, "arn:c1-user") >>

RECURSIVE Pick(_, _, _)
\* the entries of catalog whose index is in idx, in catalog order
Pick(catalog, idx, k) ==
    IF k > Len(catalog) THEN <<>>
    ELSE (IF k \in idx THEN <<catalog[k]>> ELSE <<>>) \o Pick(catalog, idx, k + 1)

RoleListings ==
    { Pick(RoleCatalog, idx, 1) :
        idx \in { s \in SUBSET (1..Len(RoleCatalog)) : Cardinality(s) <= MaxRoles } }

\* what `rosa create account-roles --prefix p --version v` adds to the account
NewAccountRoles(prefix, version) ==
    << RoleEntry(prefix \o <<"-", "ControlPlane">>, "Control plane", version, "arn:new-cp"),
       RoleEntry(prefix \o <<"-", "Installer">>, "Installer", version, "arn:new-in"),
       RoleEntry(prefix \o <<"-", "Support">>, "Support", version, "arn:new-su"),
       RoleEntry(prefix \o <<"-", "Worker">>, "Worker", version, "arn:new-wo") >>

\* one iteration of the loop of getAccountRoles
ScanRole(acc, accountRole, prefix, version) ==
    IF ~HasPrefix(accountRole.RoleName, prefix) THEN acc
    ELSE IF version # accountRole.Version THEN acc
    ELSE CASE accountRole.RoleType = "Control plane" ->
                [acc EXCEPT !.roles.controlPlaneRoleARN = accountRole.RoleARN,
                            !.found = @ + 1]
           [] accountRole.RoleType = "Installer" ->
                [acc EXCEPT !.roles.installerRoleARN = accountRole.RoleARN,
                            !.found = @ + 1]
           [] accountRole.RoleType = "Support" ->
                [acc EXCEPT !.roles.supportRoleARN = accountRole.RoleARN,
                            !.found = @ + 1]
           [] accountRole.RoleType = "Worker" ->
                [acc EXCEPT !.roles.workerRoleARN = accountRole.RoleARN,
                            !.found = @ + 1]
           [] OTHER -> acc

RECURSIVE ScanRoles(_, _, _, _)
ScanRoles(acc, availableAccountRoles, prefix, version) ==
    IF availableAccountRoles = <<>> THEN acc
    ELSE ScanRoles(ScanRole(acc, Head(availableAccountRoles), prefix, version),
                   Tail(availableAccountRoles), prefix, version)

\* the switch that ends getAccountRoles
RolesVerdictMutant(scan) ==
    IF scan.found = 0
    THEN [nil |-> TRUE, roles |-> accountRoles, err |-> NoErr]
    ELSE IF scan.found < 3
    THEN [nil |-> TRUE, roles |-> accountRoles,
          err |-> <<"one or more prefixed account roles does not exist">>]
    ELSE [nil |-> FALSE, roles |-> scan.roles, err |-> NoErr]

RolesVerdict(scan) ==
    IF scan.found = 0
    THEN [nil |-> TRUE, roles |-> accountRoles, err |-> NoErr]
    ELSE IF scan.found # 4
    THEN [nil |-> TRUE, roles |-> accountRoles,
          err |-> <<"one or more prefixed account roles does not exist">>]
    ELSE [nil |-> FALSE, roles |-> scan.roles, err |-> NoErr]

\* getAccountRoles: listFails is the outcome of `rosa list account-roles`
\* (command or JSON decoding), availableAccountRoles its decoded output
getAccountRoles(listFails, availableAccountRoles, prefix, version) ==
    IF listFails
    THEN [nil |-> TRUE, roles |-> accountRoles, err |-> <<"list account-roles failed">>]
    ELSE RolesVerdict(ScanRoles([roles |-> accountRoles, found |-> 0],
                                availableAccountRoles, prefix, version))

\* createAccountRoles. env gives the outcomes of the external calls:
\*   list1Fails, createFails, list2Fails: the three commands' failures,
\*   visible: whether the created roles show in the listing read back.
\* The result carries the commands issued and the account's roles afterwards.
createAccountRoles(prefix, version, roles, env) ==
    LET first == getAccountRoles(env.list1Fails, roles, prefix, version)
        created == IF env.visible THEN roles \o NewAccountRoles(prefix, version) ELSE roles
        second == getAccountRoles(env.list2Fails, created, prefix, version)
    IN  IF first.err # NoErr
        THEN [nil |-> TRUE, roles |-> accountRoles,
              err |-> Wrap("create account roles failed", first.err),
              calls |-> <<"rosa list account-roles">>, awsRoles |-> roles]
        ELSE IF ~first.nil
        THEN [nil |-> FALSE, roles |-> first.roles, err |-> NoErr,
              calls |-> <<"rosa list account-roles">>, awsRoles |-> roles]
        ELSE IF env.createFails
        THEN [nil |-> TRUE, roles |-> accountRoles,
              err |-> <<"create account roles failed", "command failed">>,
              calls |-> <<"rosa list account-roles", "rosa create account-roles">>,
              awsRoles |-> roles]
        ELSE IF second.err # NoErr
        THEN [nil |-> TRUE, roles |-> accountRoles,
              err |-> <<"create account roles failed",
                        "unable to get account roles post account roles creation">>
                      \o second.err,
              calls |-> <<"rosa list account-roles", "rosa create account-roles",
                          "rosa list account-roles">>,
              awsRoles |-> created]
        ELSE [nil |-> second.nil, roles |-> second.roles, err |-> NoErr,
              calls |-> <<"rosa list account-roles", "rosa create account-roles",
                          "rosa list account-roles">>,
              awsRoles |-> created]

\* the outcomes the external commands of createAccountRoles can have
RolesEnv ==
    [list1Fails : BOOLEAN, createFails : BOOLEAN, visible : BOOLEAN, list2Fails : BOOLEAN]

----------------------------------------------------------------------------
(* OIDC config                                                             *)

OidcEntry(id, secretArn) == [ID |-> id, SecretArn |-> secretArn]

\* the OIDC configs the cluster-management API may list, in list order
OidcCatalog ==
    << OidcEntry("oidc-z", <<"s", "/", "z">>),
       OidcEntry("oidc-c1x", <<"s", "/", "c", "1", "x">>),
       OidcEntry("oidc-c1", <<"s", "/", "c", "1">>),
       OidcEntry("", <<"s", "/", "c", "1">>) >>

OidcListings ==
    { Pick(OidcCatalog, idx, 1) :
        idx \in { s \in SUBSET (1..Len(OidcCatalog)) : Cardinality(s) <= 2 } }

FirstMatchMutant(configs, prefix) ==
    LET m == { k \in 1..Len(configs) : Contains(configs[k].SecretArn, prefix) }
    IN  IF m = {} THEN [nil |-> TRUE, ID |-> ""]
        ELSE [nil |-> FALSE, ID |-> configs[CHOOSE k \in m : \A j \in m : j <= k].ID]

RECURSIVE FirstMatch(_, _)
\* the loop of oidcConfigLookup: the first config whose secret ARN contains prefix
FirstMatch(configs, prefix) ==
    IF configs = <<>> THEN [nil |-> TRUE, ID |-> ""]
    ELSE IF Contains(Head(configs).SecretArn, prefix)
    THEN [nil |-> FALSE, ID |-> Head(configs).ID]
    ELSE FirstMatch(Tail(configs), prefix)

\* oidcConfigLookup: listFails is the outcome of the list request
oidcConfigLookup(listFails, configs, prefix) ==
    IF listFails
    THEN [nil |-> TRUE, ID |-> "", err |-> <<"failed to retrieve oidc configs from ocm">>]
    ELSE [nil |-> FirstMatch(configs, prefix).nil,
          ID |-> FirstMatch(configs, prefix).ID,
          err |-> NoErr]

\* if prefix == "" || installerRoleArn == ""
ParamsUndefinedMutant(prefix, installerRoleArn) == prefix = <<>> /\ installerRoleArn = ""

ParamsUndefined(prefix, installerRoleArn) == prefix = <<>> \/ installerRoleArn = ""

\* createOIDCConfig. env: listFails, configs (the list answered),
\* createFails, newID (the id `rosa create oidc-config` prints)
createOIDCConfig(prefix, installerRoleArn, env) ==
    LET oidcConfig == oidcConfigLookup(env.listFails, env.configs, prefix)
    IN  IF ParamsUndefined(prefix, installerRoleArn)
        THEN [id |-> "",
              err |-> <<"create oidc config failed", "some parameters are undefined">>,
              calls |-> <<>>]
        ELSE IF ~oidcConfig.nil
        THEN [id |-> oidcConfig.ID, err |-> NoErr, calls |-> <<"ocm list oidc-configs">>]
        ELSE IF oidcConfig.err # NoErr
        THEN [id |-> "", err |-> Wrap("create oidc config failed", oidcConfig.err),
              calls |-> <<"ocm list oidc-configs">>]
        ELSE IF env.createFails
        THEN [id |-> "", err |-> <<"create oidc config failed", "command failed">>,
              calls |-> <<"ocm list oidc-configs", "rosa create oidc-config">>]
        ELSE [id |-> env.newID, err |-> NoErr,
              calls |-> <<"ocm list oidc-configs", "rosa create oidc-config">>]

OidcEnv ==
    [listFails : BOOLEAN, configs : OidcListings, createFails : BOOLEAN,
     newID : {"oidc-new"}]

\* deleteOIDCConfig: the delete command is issued with the id as given
deleteOIDCConfig(id, cmdFails) ==
    [err |-> IF cmdFails THEN <<"delete oidc config failed", "command failed">> ELSE NoErr,
     calls |-> <<"rosa delete oidc-config">>]

\* deleteOIDCConfigProvider
deleteOIDCConfigProvider(id, cmdFails) ==
    [err |-> IF cmdFails THEN <<"delete oidc config failed", "command failed">> ELSE NoErr,
     calls |-> <<"rosa delete oidc-provider">>]

\* deleteOperatorRoles
deleteOperatorRoles(id, cmdFails) ==
    [err |-> IF cmdFails THEN <<"delete operator role failed", "command failed">> ELSE NoErr,
     calls |-> <<"rosa delete operator-roles">>]

\* deleteAccountRoles
deleteAccountRolesMutant(prefix, cmdFails) ==
    [err |-> IF cmdFails THEN <<"delete account roles failed", "command failed">> ELSE NoErr,
     calls |-> <<"rosa list account-roles", "rosa delete account-roles">>]

deleteAccountRoles(prefix, cmdFails) ==
    [err |-> IF cmdFails THEN <<"delete account roles failed", "command failed">> ELSE NoErr,
     calls |-> <<"rosa delete account-roles">>]

\* getClusterOIDCConfig: getFails is the outcome of the cluster GET, attached
\* the id of the OIDC config the cluster record carries ("" when it has none:
\* OidcConfig() is then nil and ID() of nil is "")
getClusterOIDCConfig(id, getFails, attached) ==
    [ID |-> IF getFails THEN "" ELSE attached,
     err |-> IF getFails THEN <<"failed to retrieve cluster">> ELSE NoErr,
     calls |-> <<"ocm get cluster">>]

----------------------------------------------------------------------------
(* Hosted control plane VPC                                                *)

AwsRegion == <<"r", "1">>

WorkingDir == <<"/", "t", "m", "p">>

\* the zero value of the vpc struct
vpc == [privateSubnet |-> <<>>, publicSubnet |-> <<>>, nodePrivateSubnet |-> <<>>]

\* what `terraform output` may hold for the three subnets
TfOutputs ==
    { [private |-> <<"\"", "p", "1", "\"">>, public |-> <<"\"", "q", "1", "\"">>,
       node |-> <<"\"", "n", "1", "\"">>],
      [private |-> <<"p", "2">>, public |-> <<"q", "2">>, node |-> <<"n", "2">>],
      [private |-> <<>>, public |-> <<>>, node |-> <<>>] }

VpcFailures == {"none", "new", "copy", "init", "plan", "apply", "output"}

VpcEnv == [failAt : VpcFailures, output : TfOutputs]

\* the terraform commands run up to and including the one that fails
VpcCallsMutant(failAt) ==
    CASE failAt = "new"    -> <<>>
      [] failAt = "copy"   -> <<"terraform uninstall">>
      [] failAt = "init"   -> <<"terraform init", "terraform uninstall">>
      [] failAt = "plan"   -> <<"terraform init", "terraform plan", "terraform uninstall">>
      [] failAt = "apply"  -> <<"terraform init", "terraform plan", "terraform apply",
                                "terraform destroy", "terraform uninstall">>
      [] OTHER             -> <<"terraform init", "terraform plan", "terraform apply",
                                "terraform output", "terraform uninstall">>

VpcCallsNoUninstall(failAt) ==
    CASE failAt = "new"    -> <<>>
      [] failAt = "copy"   -> <<"terraform uninstall">>
      [] failAt = "init"   -> <<"terraform init", "terraform uninstall">>
      [] failAt = "plan"   -> <<"terraform init", "terraform plan">>
      [] failAt = "apply"  -> <<"terraform init", "terraform plan", "terraform apply",
                                "terraform uninstall">>
      [] OTHER             -> <<"terraform init", "terraform plan", "terraform apply",
                                "terraform output", "terraform uninstall">>

VpcCalls(failAt) ==
    CASE failAt = "new"    -> <<>>
      [] failAt = "copy"   -> <<"terraform uninstall">>
      [] failAt = "init"   -> <<"terraform init", "terraform uninstall">>
      [] failAt = "plan"   -> <<"terraform init", "terraform plan", "terraform uninstall">>
      [] failAt = "apply"  -> <<"terraform init", "terraform plan", "terraform apply",
                                "terraform uninstall">>
      [] OTHER             -> <<"terraform init", "terraform plan", "terraform apply",
                                "terraform output", "terraform uninstall">>

\* fmt.Sprintf("%s,%s", vpc.privateSubnet, vpc.publicSubnet)
SubnetIDsMutant(v) == v.privateSubnet \o <<",">> \o v.nodePrivateSubnet

SubnetIDs(v) == v.privateSubnet \o <<",">> \o v.publicSubnet

\* createHostedControlPlaneVPC
createHostedControlPlaneVPC(clusterName, awsRegion, workingDir, env) ==
    IF clusterName = <<>> \/ awsRegion = <<>> \/ workingDir = <<>>
    THEN [nil |-> TRUE, vpc |-> vpc,
          err |-> <<"create hcp cluster vpc failed", "one or more parameters is empty">>,
          calls |-> <<>>]
    ELSE IF env.failAt \in {"new", "copy", "init"}
    THEN [nil |-> TRUE, vpc |-> vpc,
          err |-> <<"create hcp cluster vpc failed", env.failAt>>,
          calls |-> VpcCalls(env.failAt)]
    ELSE IF env.failAt \in {"plan", "apply", "output"}
    THEN [nil |-> FALSE, vpc |-> vpc,
          err |-> <<"create hcp cluster vpc failed", env.failAt>>,
          calls |-> VpcCalls(env.failAt)]
    ELSE [nil |-> FALSE,
          vpc |-> [privateSubnet |-> StripQuotes(env.output.private),
                   publicSubnet |-> StripQuotes(env.output.public),
                   nodePrivateSubnet |-> StripQuotes(env.output.node)],
          err |-> NoErr,
          calls |-> VpcCalls("none")]

DestroyFailures == {"none", "new", "init", "destroy"}

\* deleteHostedControlPlaneVPC: its errors carry the action "create"
deleteHostedControlPlaneVPC(clusterName, awsRegion, workingDir, failAt) ==
    IF clusterName = <<>> \/ awsRegion = <<>> \/ workingDir = <<>>
    THEN [err |-> <<"create hcp cluster vpc failed", "one or more parameters is empty">>,
          calls |-> <<>>]
    ELSE IF failAt = "new"
    THEN [err |-> <<"create hcp cluster vpc failed", "new">>, calls |-> <<>>]
    ELSE IF failAt = "init"
    THEN [err |-> <<"create hcp cluster vpc failed", "init">>,
          calls |-> <<"terraform init", "terraform uninstall">>]
    ELSE IF failAt = "destroy"
    THEN [err |-> <<"create hcp cluster vpc failed", "destroy">>,
          calls |-> <<"terraform init", "terraform destroy", "terraform uninstall">>]
    ELSE [err |-> NoErr,
          calls |-> <<"terraform init", "terraform destroy", "terraform uninstall">>]

----------------------------------------------------------------------------
(* Cluster create / lookup / delete                                        *)

\* setDefaultCreateClusterOptions and setDefaultDeleteClusterOptions
setDefaultClusterOptionsMutant(o) == o

setDefaultClusterOptions(o) ==
    IF o.HostedCP THEN [o EXCEPT !.STS = TRUE] ELSE o

\* the defaults validateCreateClusterOptions fills in before the version check
FillEarlyDefaults(o) ==
    [o EXCEPT !.ChannelGroup = IF @ = "" THEN "stable" ELSE @,
              !.ComputeMachineType = IF @ = "" THEN "m5.xlarge" ELSE @,
              !.MachineCidr = IF @ = "" THEN "10.0.0.0/16" ELSE @]

\* the default it fills in after the version check
FillReplicas(o) == [o EXCEPT !.Replicas = IF @ = 0 THEN 2 ELSE @]

\* validateCreateClusterOptions: the options as it leaves them, and its error
validateCreateClusterOptionsMutant(o) ==
    IF o.ClusterName = <<>>
    THEN [options |-> o, err |-> <<"cluster name is required">>]
    ELSE IF o.Version = <<>>
    THEN [options |-> FillEarlyDefaults(o), err |-> <<"version is required">>]
    ELSE [options |-> FillReplicas(FillEarlyDefaults(o)), err |-> NoErr]

validateCreateClusterOptions(o) ==
    IF o.ClusterName = <<>>
    THEN [options |-> o, err |-> <<"cluster name is required">>]
    ELSE IF o.Version = <<>>
    THEN [options |-> FillEarlyDefaults(o), err |-> <<"version is required">>]
    ELSE LET filled == FillReplicas(FillEarlyDefaults(o))
         IN  IF o.HostedCP /\ o.oidcConfigID = ""
             THEN [options |-> filled, err |-> <<"oidc config id is required">>]
             ELSE IF o.HostedCP /\ o.subnetIDs = <<>>
             THEN [options |-> filled, err |-> <<"subnet ids is required">>]
             ELSE IF o.accountRoles.controlPlaneRoleARN = ""
             THEN [options |-> filled, err |-> <<"iam role arn for control plane is required">>]
             ELSE IF o.accountRoles.installerRoleARN = ""
             THEN [options |-> filled, err |-> <<"iam role arn for installer is required">>]
             ELSE IF o.accountRoles.supportRoleARN = ""
             THEN [options |-> filled, err |-> <<"iam role arn for support role is required">>]
             ELSE IF o.accountRoles.workerRoleARN = ""
             THEN [options |-> filled, err |-> <<"iam role for worker role is required">>]
             ELSE [options |-> filled, err |-> NoErr]

\* the answers of the clusters list request: the request's failure and the
\* total it reports (a failed request has no response, whose Total() is 0)
ClusterLookups ==
    { [fails |-> TRUE, total |-> 0], [fails |-> FALSE, total |-> 0],
      [fails |-> FALSE, total |-> 1], [fails |-> FALSE, total |-> 2] }

\* getCluster
getClusterMutant(clusterName, lookup) ==
    IF lookup.total >= 1
    THEN [nil |-> FALSE, ID |-> "cluster-1", err |-> NoErr]
    ELSE [nil |-> TRUE, ID |-> "", err |-> <<"cluster not found">>]

getCluster(clusterName, lookup) ==
    IF lookup.total = 1
    THEN [nil |-> FALSE, ID |-> "cluster-1", err |-> NoErr]
    ELSE [nil |-> TRUE, ID |-> "", err |-> <<"cluster not found">>]

\* the arguments of `rosa create cluster` that CreateCluster's earlier steps
\* supply: the role ARNs, and with --hosted-cp the OIDC config id and subnets
CreateClusterArgs(o) ==
    [clusterName |-> o.ClusterName,
     roleArn |-> o.accountRoles.installerRoleARN,
     hostedCP |-> o.HostedCP,
     oidcConfigID |-> IF o.HostedCP THEN o.oidcConfigID ELSE "",
     subnetIDs |-> IF o.HostedCP THEN o.subnetIDs ELSE <<>>]

\* has createCluster passed validation and may run the create command
MayRunCreateMutant(validated) == validated.err # <<"cluster name is required">>

MayRunCreate(validated) == validated.err = NoErr

\* createCluster. env: createFails (the create command), lookup (the list
\* request that resolves the created cluster)
createCluster(o, env) ==
    LET validated == validateCreateClusterOptions(o)
        cluster == getCluster(o.ClusterName, env.lookup)
    IN  IF ~MayRunCreate(validated)
        THEN [id |-> "", options |-> validated.options, calls |-> <<>>,
              err |-> Wrap("cluster options validation failed", validated.err)]
        ELSE IF env.createFails
        THEN [id |-> "", options |-> validated.options,
              calls |-> <<"rosa create cluster">>, err |-> <<"command failed">>]
        ELSE IF cluster.err # NoErr
        THEN [id |-> "", options |-> validated.options,
              calls |-> <<"rosa create cluster", "ocm list clusters">>,
              err |-> cluster.err]
        ELSE [id |-> cluster.ID, options |-> validated.options,
              calls |-> <<"rosa create cluster", "ocm list clusters">>,
              err |-> NoErr]

ClusterEnv == [createFails : BOOLEAN, lookup : ClusterLookups]

\* deleteCluster
deleteClusterMutant(id, cmdFails) ==
    IF cmdFails
    THEN [err |-> <<"command failed">>, calls |-> <<"rosa delete cluster">>]
    ELSE [err |-> NoErr, calls |-> <<"rosa delete cluster">>]

deleteCluster(id, cmdFails) ==
    IF id = ""
    THEN [err |-> <<"cluster ID is undefined and is required">>, calls |-> <<>>]
    ELSE IF cmdFails
    THEN [err |-> <<"command failed">>, calls |-> <<"rosa delete cluster">>]
    ELSE [err |-> NoErr, calls |-> <<"rosa delete cluster">>]

\* attempt budgets set by CreateCluster and DeleteCluster
ClassicReadyAttempts == 120

HostedReadyAttempts == 30

ClusterDeletedAttempts == 30

\* the condition of the poll loops: for i := 1; i <= attempts; i++
LoopContinuesMutant(k, n) == k < n

LoopContinuesOnceMore(k, n) == k <= n + 1

LoopContinues(k, n) == k <= n

\* what one `rosa describe cluster` of the ready poll can answer
\* "no status": the JSON carries no "status" map; "no state": the status
\* carries no "state"
DescribeOutcomes == {"error", "ready", "installing", "no status", "no state"}

\* output["status"].(map[string]any) panics when the value is not a map
DescribePanics(outcome) == outcome = "no status"

\* the state getClusterState hands to the loop of waitForClusterToBeReady
ObservedState(outcome) ==
    IF outcome = "error" THEN "n/a"
    ELSE IF outcome = "no state" THEN "<nil>"
    ELSE outcome

\* the test of the loop of waitForClusterToBeReady: if clusterState != "ready"
NotReadyMutant(state) == state = "installing"

NotReady(state) == state # "ready"

----------------------------------------------------------------------------
(* Post-install health checks                                              *)

HealthOutcomes == {"client fails", "check fails", "ok"}

\* waitForClusterHealthChecksToSucceed: the classic check is a placeholder
waitForClusterHealthChecksToSucceed(hostedCP, outcome) ==
    IF outcome = "client fails"
    THEN <<"failed to construct kubernetes client">>
    ELSE IF hostedCP /\ outcome = "check fails"
    THEN <<"hosted control plane cluster health check failed">>
    ELSE NoErr

\* v1.NodeCondition, and the nodes the cluster may list: a ready node, a node
\* whose Ready condition is False, one whose Ready condition is Unknown, and
\* a node that reports no Ready condition
NodeCondition(type, status) == [Type |-> type, Status |-> status]

NodeCatalog ==
    { <<NodeCondition("MemoryPressure", "False"), NodeCondition("Ready", "True")>>,
      <<NodeCondition("Ready", "False")>>,
      <<NodeCondition("Ready", "Unknown")>>,
      <<NodeCondition("MemoryPressure", "False")>> }

\* the answers of client.List: an error (a timeout or another one) or the items
NodeListOutcomes ==
    { [err |-> "timeout", items |-> <<>>], [err |-> "other", items |-> <<>>] }
    \cup { [err |-> "none", items |-> l] :
             l \in {<<>>} \cup { <<n>> : n \in NodeCatalog }
                   \cup { <<n, m>> : n, m \in NodeCatalog } }

\* the inner loop over node.Status.Conditions: no condition of type Ready
\* has a status other than True
ConditionsPass(node) ==
    \A k \in 1..Len(node) : ~(node[k].Type = "Ready" /\ node[k].Status # "True")

\* the condition function handed to wait.PollUntilContextTimeout
NodesCondition(listed) ==
    IF listed.err = "timeout" THEN [done |-> FALSE, err |-> NoErr]
    ELSE IF listed.err # "none" THEN [done |-> FALSE, err |-> <<"list failed">>]
    ELSE IF Len(listed.items) = 0 THEN [done |-> FALSE, err |-> <<"no nodes available">>]
    ELSE IF \E k \in 1..Len(listed.items) : ~ConditionsPass(listed.items[k])
    THEN [done |-> FALSE, err |-> NoErr]
    ELSE [done |-> TRUE, err |-> NoErr]


----------------------------------------------------------------------------
(* osd Provider.addGateAgreement                                           *)

versionGateLabel == "api.openshift.com/gate-ocp"

SemVer(major, minor, patch) == [major |-> major, minor |-> minor, patch |-> patch]

SemVers == { SemVer(major, minor, patch) : major \in {4, 5}, minor \in {12, 13}, patch \in {0, 1} }

\* fmt.Sprintf("%d.%d", upgradeVersion.Major(), upgradeVersion.Minor())
GateVersion(v) == <<v.major, ".", v.minor>>

VersionGate(id, prefix, label) == [id |-> id, versionRawIDPrefix |-> prefix, label |-> label]

\* what listing the version gates of OCM can give
VersionGateLists ==
    { <<>>,
      <<VersionGate("gate-4.13", <<4, ".", 13>>, versionGateLabel)>>,
      <<VersionGate("gate-sts", <<4, ".", 13>>, "api.openshift.com/gate-sts"),
        VersionGate("gate-4.13", <<4, ".", 13>>, versionGateLabel),
        VersionGate("gate-4.13b", <<4, ".", 13>>, versionGateLabel)>>,
      <<VersionGate("gate-4.12", <<4, ".", 12>>, versionGateLabel),
        VersionGate("gate-5.13", <<5, ".", 13>>, versionGateLabel)>> }

\* the version gate ids of the agreements a cluster can start with
GateAgreementLists == { <<>>, <<"gate-4.13">>, <<"gate-4.12", "gate-5.13">> }

GateFailures == {"none", "versionGates", "gateAgreements", "getGateAgreement", "build", "add"}

RECURSIVE FirstVersionGate(_, _)
\* the loop of getVersionGateID: the id of the first gate of the version
\* that carries the ocp label, "" when there is none
FirstVersionGate(versionGates, version) ==
    IF versionGates = <<>> THEN ""
    ELSE IF Head(versionGates).versionRawIDPrefix = version
            /\ Head(versionGates).label = versionGateLabel
         THEN Head(versionGates).id
         ELSE FirstVersionGate(Tail(versionGates), version)

getVersionGateID(versionGates, version, failure) ==
    IF failure = "versionGates"
    THEN [id |-> "", err |-> <<"unable to get version gate id", "unable to list version gates">>]
    ELSE IF FirstVersionGate(versionGates, version) = ""
    THEN [id |-> "", err |-> <<"version gate does not exist">>]
    ELSE [id |-> FirstVersionGate(versionGates, version), err |-> NoErr]

\* mutant: the agreements of the cluster are never found
gateAgreementExistForClusterMutant(agreements, gateAgreementID, failure) ==
    IF failure = "gateAgreements"
    THEN [exist |-> FALSE, err |-> <<"unable to get cluster version gate agreements">>]
    ELSE [exist |-> FALSE, err |-> NoErr]

gateAgreementExistForCluster(agreements, gateAgreementID, failure) ==
    IF failure = "gateAgreements"
    THEN [exist |-> FALSE, err |-> <<"unable to get cluster version gate agreements">>]
    ELSE [exist |-> \E k \in 1..Len(agreements) : agreements[k] = gateAgreementID,
          err |-> NoErr]

\* the requests sent to OCM
ListVersionGates == <<"version_gates", "list">>

ListGateAgreements(cluster) == <<"clusters", cluster, "gate_agreements", "list">>

GetVersionGate(id) == <<"version_gates", id, "get">>

AddGateAgreement(cluster, id) == <<"clusters", cluster, "gate_agreements", "add", id>>

\* agreements are the version gate ids agreed to on the cluster; the result
\* carries the requests sent and the agreements of the cluster afterwards
addGateAgreement(agreements, versionGates, cluster, currentVersion, upgradeVersion, failure) ==
    LET gate  == getVersionGateID(versionGates, GateVersion(upgradeVersion), failure)
        found == gateAgreementExistForCluster(agreements, gate.id, failure)
        sent  == <<ListVersionGates, ListGateAgreements(cluster), GetVersionGate(gate.id),
                   AddGateAgreement(cluster, gate.id)>>
        Out(err, n, after) == [err |-> err, calls |-> SubSeq(sent, 1, n), agreements |-> after]
    IN  IF ~(currentVersion.minor < upgradeVersion.minor) THEN Out(NoErr, 0, agreements)
        ELSE IF gate.err # NoErr THEN Out(gate.err, 1, agreements)
        ELSE IF found.err # NoErr THEN Out(found.err, 2, agreements)
        ELSE IF found.exist THEN Out(NoErr, 2, agreements)
        ELSE IF failure = "getGateAgreement"
        THEN Out(<<"unable to get version gate agreement id">>, 3, agreements)
        ELSE IF failure = "build"
        THEN Out(<<"building version gate agreement failed">>, 3, agreements)
        ELSE IF failure = "add"
        THEN Out(<<"applying version gate agreement failed">>, 4, agreements)
        ELSE Out(NoErr, 4, Append(agreements, gate.id))

----------------------------------------------------------------------------
(* osd Provider.OCMUpgrade                                                 *)

upgradeMaxAttempts == 1080

\* the attempts of managedUpgradeConfigExist: for i := 1; i <= 6; i++
upgradeConfigExistAttempts == 6

\* semver.Version.String()
VersionString(v) ==
    ToString(v.major) \o "." \o ToString(v.minor) \o "." \o ToString(v.patch)

\* upgradeError{err: err}
UpgradeError(err) == Wrap("osd upgrade failed", err)

\* an entry of status.history of the upgrade config. hasPhase tells whether
\* the entry carries a phase (which may be the empty string); conditions is
\* "missing" (no conditions field), "empty" (a list without items),
\* "no message" (a first condition without a message) or "ok"
History(version, hasPhase, phase, conditions) ==
    [version |-> version, hasPhase |-> hasPhase, phase |-> phase, conditions |-> conditions]

\* the history lists the upgrade config may carry while version u is installed
HistoryLists(u) ==
    LET Other     == History("4.12.0", TRUE, "Upgraded", "ok")
        NoPhase   == History(u, FALSE, "", "ok")
        Empty     == History(u, TRUE, "", "ok")
        Pending   == History(u, TRUE, "Pending", "ok")
        Failed    == History(u, TRUE, "Failed", "ok")
        Upgraded  == History(u, TRUE, "Upgraded", "ok")
        NoConds   == History(u, TRUE, "Upgraded", "missing")
        NoItems   == History(u, TRUE, "Upgraded", "empty")
        NoMessage == History(u, TRUE, "Failed", "no message")
    IN  {<<>>}
        \cup { <<h>> : h \in {Other, NoPhase, Empty, Pending, Failed, Upgraded, NoConds,
                              NoItems, NoMessage} }
        \cup { <<g, h>> : g \in {Other, NoPhase, NoConds},
                          h \in {NoPhase, Pending, Failed, Upgraded} }
        \cup { <<Empty, Failed>>, <<NoMessage, Pending>> }

\* what getManagedUpgradeOperatorConfig and the status/history lookups give:
\* the List request fails, it lists no upgrade config, the config has no
\* status, the status has no history, or the history is read
UpgradeConfigs(u) ==
    { [err |-> e, histories |-> <<>>] :
        e \in {"get failed", "no items", "no status", "no history"} }
    \cup { [err |-> "none", histories |-> hs] : hs \in HistoryLists(u) }

RECURSIVE ScanHistories(_, _, _)
\* the loop over histories: upgradeStatus after it, given its value before;
\* panic when conditions[0] is read from an empty list
ScanHistories(histories, version, upgradeStatus) ==
    IF histories = <<>> THEN [panic |-> FALSE, upgradeStatus |-> upgradeStatus]
    ELSE LET h == Head(histories)
         IN  IF h.version # version
             THEN ScanHistories(Tail(histories), version, upgradeStatus)
             ELSE IF ~h.hasPhase
             THEN ScanHistories(Tail(histories), version, "")
             ELSE IF h.conditions = "missing"
             THEN ScanHistories(Tail(histories), version, h.phase)
             ELSE IF h.conditions = "empty"
             THEN [panic |-> TRUE, upgradeStatus |-> h.phase]
             ELSE IF h.conditions = "no message"
             THEN ScanHistories(Tail(histories), version, h.phase)
             ELSE [panic |-> FALSE, upgradeStatus |-> h.phase]

\* one iteration of the loop of OCMUpgrade: "continue", "return error" or
\* "panic"; phase is the upgradeStatus it arrived at
UpgradeIteration(config, version) ==
    LET scan == ScanHistories(config.histories, version, "")
    IN  IF config.err = "no items" THEN [next |-> "panic", phase |-> ""]
        ELSE IF config.err # "none" THEN [next |-> "continue", phase |-> ""]
        ELSE IF scan.panic THEN [next |-> "panic", phase |-> ""]
        ELSE IF scan.upgradeStatus = "" THEN [next |-> "continue", phase |-> ""]
        ELSE IF scan.upgradeStatus = "Failed"
        THEN [next |-> "return error", phase |-> "Failed"]
        ELSE [next |-> "continue", phase |-> scan.upgradeStatus]

\* the request of initiateUpgrade
AddUpgradePolicy(cluster, version) == <<"clusters", cluster, "upgrade_policies", "add", version>>

initiateUpgrade(cluster, version, outcome) ==
    IF outcome = "build fails"
    THEN [err |-> <<"unable to build upgrade policy">>, calls |-> <<>>]
    ELSE IF outcome = "ok"
    THEN [err |-> NoErr, calls |-> <<AddUpgradePolicy(cluster, version)>>]
    ELSE [err |-> <<"applying upgrade policy failed">>,
          calls |-> <<AddUpgradePolicy(cluster, version)>>]

\* the updates of the managed-upgrade-operator deployment
ScaleDeployment(replicas) == <<"deployments", "managed-upgrade-operator", "update", replicas>>

restartManagedUpgradeOperator(outcome) ==
    IF outcome = "not available"
    THEN [err |-> <<"unable to get managed upgrade operator deployment">>, calls |-> <<>>]
    ELSE IF outcome = "scale down fails"
    THEN [err |-> <<"scale down deployment replicas to 0 failed">>,
          calls |-> <<ScaleDeployment("0")>>]
    ELSE IF outcome = "scale up fails"
    THEN [err |-> <<"scale up deployment replicas to 1 failed">>,
          calls |-> <<ScaleDeployment("0"), ScaleDeployment("1")>>]
    ELSE [err |-> NoErr, calls |-> <<ScaleDeployment("0"), ScaleDeployment("1")>>]

----------------------------------------------------------------------------
(* AWS credentials and the process environment                             *)

\* an environment variable that is not set ("" is a variable set to empty)
Unset == "<unset>"

NoEnviron ==
    [AWS_REGION |-> Unset, AWS_PROFILE |-> Unset, AWS_ACCESS_KEY_ID |-> Unset,
     AWS_SECRET_ACCESS_KEY |-> Unset, KUBECONFIG |-> Unset]

AWSCredentials(accessKeyID, profile, region, secretAccessKey) ==
    [AccessKeyID |-> accessKeyID, Profile |-> profile, Region |-> region,
     SecretAccessKey |-> secretAccessKey]

\* what the process environment may hold before a call
UserEnvirons ==
    { NoEnviron,
      [NoEnviron EXCEPT !.AWS_REGION = "r0", !.AWS_PROFILE = "profile-0"] }

\* the credentials the provider was constructed with (validated by New)
ProviderCredentials == AWSCredentials("", "profile-1", "r1", "")

\* AWSCredentials.priority: -1 stands for its error
priority(c) ==
    IF c.Profile # "" THEN 0
    ELSE IF c.AccessKeyID # "" /\ c.SecretAccessKey # "" THEN 1
    ELSE -1

\* the os.Setenv calls of CallFuncWithCredentials
SetCredentials(c, env) ==
    IF priority(c) = 0
    THEN [env EXCEPT !.AWS_REGION = c.Region, !.AWS_PROFILE = c.Profile]
    ELSE [env EXCEPT !.AWS_REGION = c.Region, !.AWS_ACCESS_KEY_ID = c.AccessKeyID,
                     !.AWS_SECRET_ACCESS_KEY = c.SecretAccessKey]

\* CallFuncWithCredentials: fErr is what f returns; the result carries the
\* environment the call leaves behind and whether f was called
CallFuncWithCredentials(c, env, fErr) ==
    IF priority(c) = -1
    THEN [err |-> <<"no credentials are set, unable to determine priority">>,
          environ |-> env, called |-> FALSE]
    ELSE [err |-> fErr, environ |-> SetCredentials(c, env), called |-> TRUE]

\* the commands the provider runs inside CallFuncWithCredentials
CredentialedCalls ==
    { "rosa list account-roles", "rosa create account-roles", "rosa delete account-roles",
      "rosa create oidc-config", "rosa delete oidc-config", "rosa delete oidc-provider",
      "rosa delete operator-roles", "rosa create cluster", "rosa delete cluster",
      "terraform plan", "terraform destroy" }

\* the environment after a step that issued newCalls
EnvAfter(env, newCalls) ==
    IF \E k \in 1..Len(newCalls) : newCalls[k] \in CredentialedCalls
    THEN CallFuncWithCredentials(ProviderCredentials, env, NoErr).environ
    ELSE env

\* os.Getenv: the empty string for a variable that is not set
Getenv(env, name) == IF env[name] = Unset THEN "" ELSE env[name]

\* AWSCredentials.ValidateAndFetchCredentials: zero credentials are read from
\* the environment; the result carries the credentials afterwards
ValidateAndFetchCredentials(c, env) ==
    LET fetched == IF c = AWSCredentials("", "", "", "")
                   THEN AWSCredentials(Getenv(env, "AWS_ACCESS_KEY_ID"),
                                       Getenv(env, "AWS_PROFILE"),
                                       Getenv(env, "AWS_REGION"),
                                       Getenv(env, "AWS_SECRET_ACCESS_KEY"))
                   ELSE c
        setByAccessKeys == ~(fetched.AccessKeyID = "" \/ fetched.SecretAccessKey = "")
        setByProfile    == fetched.Profile # ""
    IN  [credentials |-> fetched,
         err |-> IF ~setByAccessKeys /\ ~setByProfile
                 THEN <<"credentials are not supplied">>
                 ELSE IF fetched.Region = "" THEN <<"region is not supplied">>
                 ELSE NoErr]

\* providerError{err: err}
ProviderError(err) == Wrap("failed to construct rosa provider", err)

\* what can go wrong in New outside its parameters
NewFailures == {"none", "cli not found", "version fails", "version unparsable",
                "version too old", "login fails", "ocm client fails"}

\* the variadic args of New: credentials, or a value of another type
CredentialsArg(c) == [isCredentials |-> TRUE, value |-> c]

OtherArg == [isCredentials |-> FALSE, value |-> AWSCredentials("", "", "", "")]

\* New(ctx, token, environment, args...): nil tells that no provider is
\* returned, panic that the call crashed (the type assertion on args[0], or
\* currentVerison.String() on the nil version of a failed parse)
New(token, environment, args, env, failure) ==
    LET given == IF Len(args) = 1 THEN args[1].value ELSE AWSCredentials("", "", "", "")
        v     == ValidateAndFetchCredentials(given, env)
        login == CallFuncWithCredentials(v.credentials, env,
                     IF failure = "login fails" THEN <<"login failed">> ELSE NoErr)
        Out(err, panic, c, e, cmds) ==
            [nil |-> err # NoErr \/ panic, err |-> IF err = NoErr THEN NoErr ELSE ProviderError(err),
             panic |-> panic, credentials |-> c, environ |-> e, calls |-> cmds]
    IN  IF environment = "" \/ token = ""
        THEN Out(<<"one or more parameters are empty">>, FALSE, given, env, <<>>)
        ELSE IF failure = "cli not found"
        THEN Out(<<"rosa not found in PATH">>, FALSE, given, env, <<>>)
        ELSE IF failure = "version fails"
        THEN Out(<<"command failed">>, FALSE, given, env, <<"rosa version">>)
        ELSE IF failure = "version unparsable"
        THEN Out(NoErr, TRUE, given, env, <<"rosa version">>)
        ELSE IF failure = "version too old"
        THEN Out(<<"current rosa version is too old">>, FALSE, given, env, <<"rosa version">>)
        ELSE IF Len(args) = 1 /\ ~args[1].isCredentials
        THEN Out(NoErr, TRUE, given, env, <<"rosa version">>)
        ELSE IF Len(args) > 1
        THEN Out(<<"only one AWSCredentials can be provided">>, FALSE, given, env,
                 <<"rosa version">>)
        ELSE IF v.err # NoErr
        THEN Out(<<"aws authentication data check failed">> \o v.err, FALSE, v.credentials,
                 env, <<"rosa version">>)
        ELSE IF login.err # NoErr
        THEN Out(login.err, FALSE, v.credentials, login.environ,
                 IF login.called THEN <<"rosa version", "rosa login">> ELSE <<"rosa version">>)
        ELSE IF failure = "ocm client fails"
        THEN Out(<<"ocm client failed">>, FALSE, v.credentials, login.environ,
                 <<"rosa version", "rosa login">>)
        ELSE Out(NoErr, FALSE, v.credentials, login.environ, <<"rosa version", "rosa login">>)

\* the environment the methods of a provider start in: the one its New left
ProviderEnvirons ==
    { New("token", "stage", <<CredentialsArg(ProviderCredentials)>>, env, "none").environ :
        env \in UserEnvirons }

----------------------------------------------------------------------------
(* Initial states: one entry point per behaviour, its inputs drawn from    *)
(* bounded sets                                                            *)

ClusterNames == {<<>>, <<"c", "1">>}

Versions == {<<>>, <<"x">>, <<"4", "12", "6">>}

NoReturn == [id |-> "", err |-> NoErr]

\* the working directory "/tmp": which call's terraform.New installed the
\* tool there, which staged setup-vpc.tf, which ran tf.Init, and whose plan
\* or apply wrote the terraform state last ("" for none)
EmptyDir == [tool |-> "", template |-> "", init |-> "", state |-> ""]

CreateClusterOptions(name, version, hostedCP, sts) ==
    [ChannelGroup |-> "", ClusterName |-> name, ComputeMachineType |-> "",
     HostedCP |-> hostedCP, MachineCidr |-> "", Replicas |-> 0, STS |-> sts,
     Version |-> version, accountRoles |-> accountRoles, oidcConfigID |-> "",
     subnetIDs |-> <<>>]

DeleteClusterOptions(id, name, hostedCP, sts) ==
    [ClusterID |-> id, ClusterName |-> name, HostedCP |-> hostedCP, STS |-> sts]

\* role sets and private fields a createCluster call may be handed
RoleSets ==
    { accountRoles,
      [controlPlaneRoleARN |-> "arn:c1-cp", installerRoleARN |-> "arn:c1-in",
       supportRoleARN |-> "arn:c1-su", workerRoleARN |-> "arn:c1-wo"],
      [controlPlaneRoleARN |-> "arn:c1-cp", installerRoleARN |-> "arn:c1x-in",
       supportRoleARN |-> "arn:c1-su", workerRoleARN |-> ""] }

\* nothing handed to or returned by a sub-operation yet
NoFlow ==
    [accountRoles |-> accountRoles, installerRoleArn |-> "", oidcConfigID |-> "",
     vpc |-> vpc, args |-> <<>>]

InitLocals ==
    /\ calls = <<>>
    /\ steps = <<>>
    /\ okSteps = {}
    /\ attempts = 0
    /\ i = 1
    /\ predCalls = 0
    /\ clusterState = ""
    /\ clusterID = ""
    /\ oidcConfigID = ""
    /\ ensured = <<>>
    /\ cancelledAt = -1
    /\ ret = NoReturn
    /\ invocations = <<>>
    /\ tmpDir = EmptyDir
    /\ flow = NoFlow

\* Provider.CreateCluster(ctx, options)
InitCreateCluster ==
    /\ op = "CreateCluster"
    /\ pc = "setDefaults"
    /\ \E name \in ClusterNames, version \in Versions, hostedCP \in BOOLEAN, sts \in BOOLEAN :
          options = CreateClusterOptions(name, version, hostedCP, sts)
    /\ awsRoles \in RoleListings
    /\ InitLocals
    /\ environ \in ProviderEnvirons

\* Provider.DeleteCluster(ctx, options)
InitDeleteCluster ==
    /\ op = "DeleteCluster"
    /\ pc = "setDefaults"
    /\ \E id \in {"", "cluster-1"}, name \in ClusterNames, hostedCP \in BOOLEAN, sts \in BOOLEAN :
          options = DeleteClusterOptions(id, name, hostedCP, sts)
    /\ awsRoles \in {<<>>, Pick(RoleCatalog, 1..4, 1)}
    /\ InitLocals
    /\ environ \in ProviderEnvirons

\* Provider.createAccountRoles(ctx, prefix, version, channelGroup), twice
InitCreateAccountRoles ==
    /\ op = "createAccountRoles"
    /\ pc = "ensure"
    /\ \E prefix \in ClusterNames :
          options = [prefix |-> prefix, version |-> <<"4", "12">>]
    /\ awsRoles \in RoleListings
    /\ InitLocals
    /\ environ \in ProviderEnvirons

\* Provider.createCluster(ctx, options)
InitCreateClusterCommand ==
    /\ op = "createCluster"
    /\ pc = "createCluster"
    /\ \E name \in ClusterNames, version \in {<<>>, <<"4", "12", "6">>},
          hostedCP \in BOOLEAN, roles \in RoleSets,
          oidc \in {"", "oidc-c1"}, subnets \in {<<>>, <<"p", "1", ",", "q", "1">>} :
          options = [CreateClusterOptions(name, version, hostedCP, TRUE)
                        EXCEPT !.accountRoles = roles, !.oidcConfigID = oidc,
                               !.subnetIDs = subnets]
    /\ awsRoles = <<>>
    /\ InitLocals
    /\ environ \in ProviderEnvirons

\* Provider.waitForClusterToBeReady(ctx, clusterID, attempts)
InitWaitForClusterToBeReady ==
    /\ op = "waitForClusterToBeReady"
    /\ pc = "waitReady"
    /\ options = [clusterID |-> "cluster-1"]
    /\ awsRoles = <<>>
    /\ calls = <<>>
    /\ steps = <<>>
    /\ okSteps = {}
    /\ attempts \in 0..MaxAttempts
    /\ i = 1
    /\ predCalls = 0
    /\ clusterState = ""
    /\ clusterID = "cluster-1"
    /\ oidcConfigID = ""
    /\ ensured = <<>>
    /\ cancelledAt = -1
    /\ environ \in ProviderEnvirons
    /\ ret = NoReturn
    /\ invocations = <<>>
    /\ tmpDir = EmptyDir
    /\ flow = NoFlow

\* AWSCredentials.CallFuncWithCredentials(ctx, f)
InitCallFuncWithCredentials ==
    /\ op = "CallFuncWithCredentials"
    /\ pc = "call"
    /\ environ \in UserEnvirons
    /\ \E accessKeyID \in {"", "key-1"}, profile \in {"", "profile-1"},
          region \in {"", "r1"}, secretAccessKey \in {"", "secret-1"} :
          options = [credentials |->
                        AWSCredentials(accessKeyID, profile, region, secretAccessKey),
                     environ |-> environ]
    /\ awsRoles = <<>>
    /\ InitLocals

\* Provider.createOIDCConfig(ctx, prefix, installerRoleArn, managed)
InitCreateOIDCConfig ==
    /\ op = "createOIDCConfig"
    /\ pc = "ensure"
    /\ \E prefix \in ClusterNames, installerRoleArn \in {"", "arn:c1-in"} :
          options = [prefix |-> prefix, installerRoleArn |-> installerRoleArn]
    /\ awsRoles = <<>>
    /\ InitLocals
    /\ environ \in ProviderEnvirons

\* Provider.hcpClusterInstallHealthChecks(ctx, client)
InitHcpClusterInstallHealthChecks ==
    /\ op = "hcpClusterInstallHealthChecks"
    /\ pc = "pollNodes"
    /\ options = [clusterID |-> "cluster-1"]
    /\ awsRoles = <<>>
    /\ calls = <<>>
    /\ steps = <<>>
    /\ okSteps = {}
    /\ attempts = MaxPolls
    /\ i = 1
    /\ predCalls = 0
    /\ clusterState = ""
    /\ clusterID = "cluster-1"
    /\ oidcConfigID = ""
    /\ ensured = <<>>
    /\ cancelledAt = -1
    /\ environ \in ProviderEnvirons
    /\ ret = NoReturn
    /\ invocations = <<>>
    /\ tmpDir = EmptyDir
    /\ flow = NoFlow

\* osd Provider.OCMUpgrade(ctx, client, clusterID, currentVersion, upgradeVersion)
InitOCMUpgrade ==
    /\ op = "OCMUpgrade"
    /\ pc = "getKubernetesDynamicClient"
    /\ \E upgradeVersion \in {SemVer(4, 12, 1), SemVer(4, 13, 0)} :
          options = [clusterID |-> "cluster-1", currentVersion |-> SemVer(4, 12, 0),
                     upgradeVersion |-> upgradeVersion,
                     versionGates |-> <<VersionGate("gate-4.13", <<4, ".", 13>>, versionGateLabel)>>,
                     agreements |-> <<>>]
    /\ awsRoles = <<>>
    /\ calls = <<>>
    /\ steps = <<>>
    /\ okSteps = {}
    /\ attempts = upgradeMaxAttempts
    /\ i = 1
    /\ predCalls = 0
    /\ clusterState = ""
    /\ clusterID = "cluster-1"
    /\ oidcConfigID = ""
    /\ ensured = <<>>
    /\ cancelledAt = -1
    /\ environ = NoEnviron
    /\ ret = NoReturn
    /\ invocations = <<>>
    /\ tmpDir = EmptyDir
    /\ flow = NoFlow

\* osd Provider.addGateAgreement(ctx, clusterID, currentVersion, upgradeVersion)
InitAddGateAgreement ==
    /\ op = "addGateAgreement"
    /\ pc = "addGateAgreement"
    /\ \E currentVersion \in SemVers, upgradeVersion \in SemVers,
          versionGates \in VersionGateLists, agreements \in GateAgreementLists :
          options = [clusterID |-> "cluster-1", currentVersion |-> currentVersion,
                     upgradeVersion |-> upgradeVersion, versionGates |-> versionGates,
                     agreements |-> agreements]
    /\ awsRoles = <<>>
    /\ InitLocals
    /\ environ = NoEnviron

\* New(ctx, token, environment, args...)
InitNew ==
    /\ op = "New"
    /\ pc = "New"
    /\ environ \in UserEnvirons
    /\ \E token \in {"", "token"}, environment \in {"", "stage"},
          args \in {<<>>, <<CredentialsArg(ProviderCredentials)>>,
                    <<CredentialsArg(AWSCredentials("key-1", "", "r1", "secret-1"))>>,
                    <<CredentialsArg(AWSCredentials("", "profile-1", "", ""))>>,
                    <<OtherArg>>,
                    <<CredentialsArg(ProviderCredentials), CredentialsArg(ProviderCredentials)>>} :
          options = [token |-> token, environment |-> environment, args |-> args]
    /\ awsRoles = <<>>
    /\ InitLocals

Init ==
    \/ InitNew
    \/ InitAddGateAgreement
    \/ InitOCMUpgrade
    \/ InitHcpClusterInstallHealthChecks
    \/ InitCallFuncWithCredentials
    \/ InitCreateOIDCConfig
    \/ InitCreateCluster
    \/ InitDeleteCluster
    \/ InitCreateAccountRoles
    \/ InitCreateClusterCommand
    \/ InitWaitForClusterToBeReady

----------------------------------------------------------------------------
(* Helpers of the actions                                                  *)

\* the entry point returns (id, err)
Return(id, err) ==
    /\ ret' = [id |-> id, err |-> err]
    /\ pc' = "done"

\* clusterError{action: "create"} / clusterError{action: "delete"}
CreateError(err) == Wrap("create cluster failed", err)

DeleteError(err) == Wrap("delete cluster failed", err)

Started(step) == steps' = Append(steps, step)

\* the step returned err: it succeeded iff err is nil
Finished(step, err) ==
    okSteps' = IF err = NoErr THEN okSteps \cup {step} ELSE okSteps

\* the `if options.STS {` and `if options.HostedCP {` blocks of CreateCluster
\* and DeleteCluster
IfSTSMutant(o) == TRUE

IfSTS(o) == o.STS

IfHostedCP(o) == o.HostedCP

\* the `if err != nil { return ..., &clusterError{...} }` after each step of CreateCluster
CreateAbortsMutant(err) == FALSE

CreateAborts(err) == err # NoErr

\* the `if err != nil { return &clusterError{...} }` after each step of DeleteCluster
DeleteAbortsMutant(err) == FALSE

DeleteAborts(err) == err # NoErr

\* has the caller cancelled ctx
Cancelled == cancelledAt >= 0

\* can a command started with ctx fail or succeed: a cancelled ctx fails it
CommandFailures == IF Cancelled THEN {TRUE} ELSE BOOLEAN

----------------------------------------------------------------------------
(* Provider.CreateCluster                                                  *)

\* options.setDefaultCreateClusterOptions(); clusterReadyAttempts := 120
CreateSetDefaults ==
    /\ op = "CreateCluster" /\ pc = "setDefaults"
    /\ options' = setDefaultClusterOptions(options)
    /\ attempts' = ClassicReadyAttempts
    /\ pc' = "accountRoles"
    /\ UNCHANGED <<flow, invocations, tmpDir, op, cancelledAt, awsRoles, calls, steps, okSteps, i, predCalls, clusterState,
                   clusterID, oidcConfigID, ensured, ret>>
    /\ environ' = EnvAfter(environ, SubSeq(calls', Len(calls) + 1, Len(calls')))

\* if options.STS { parse the version; createAccountRoles; options.accountRoles = *accountRoles }
CreateAccountRolesStep ==
    /\ op = "CreateCluster" /\ pc = "accountRoles"
    /\ IF ~IfSTS(options)
       THEN /\ pc' = "oidcConfig"
            /\ UNCHANGED <<options, awsRoles, calls, steps, okSteps, ret, flow>>
       ELSE IF ~NewVersion(options.Version).ok
       THEN /\ Return("", CreateError(<<"failed to parse version into semantic version">>))
            /\ UNCHANGED <<options, awsRoles, calls, steps, okSteps, flow>>
       ELSE \E env \in RolesEnv :
              LET r == createAccountRoles(options.ClusterName, MajorMinor(options.Version),
                                          awsRoles, env)
              IN  /\ Started("createAccountRoles")
                  /\ Finished("createAccountRoles", r.err)
                  /\ calls' = calls \o r.calls
                  /\ awsRoles' = r.awsRoles
                  /\ flow' = IF r.nil THEN flow ELSE [flow EXCEPT !.accountRoles = r.roles]
                  /\ IF CreateAborts(r.err)
                     THEN /\ Return("", CreateError(r.err))
                          /\ UNCHANGED options
                     ELSE IF r.nil
                     THEN \* *accountRoles of a nil pointer
                          /\ pc' = "panic"
                          /\ UNCHANGED <<options, ret>>
                     ELSE /\ options' = [options EXCEPT !.accountRoles = r.roles]
                          /\ pc' = "oidcConfig"
                          /\ UNCHANGED ret
    /\ UNCHANGED <<invocations, tmpDir, op, cancelledAt, attempts, i, predCalls, clusterState, clusterID, oidcConfigID, ensured>>
    /\ environ' = EnvAfter(environ, SubSeq(calls', Len(calls) + 1, Len(calls')))

\* if options.HostedCP { clusterReadyAttempts = 30; createOIDCConfig; options.oidcConfigID = ... }
CreateOIDCConfigStep ==
    /\ op = "CreateCluster" /\ pc = "oidcConfig"
    /\ IF ~IfHostedCP(options)
       THEN /\ pc' = "createCluster"
            /\ UNCHANGED <<options, calls, steps, okSteps, attempts, ret, flow>>
       ELSE \E env \in OidcEnv :
              LET r == createOIDCConfig(options.ClusterName,
                                        options.accountRoles.installerRoleARN, env)
              IN  /\ attempts' = HostedReadyAttempts
                  /\ flow' = [flow EXCEPT
                                 !.installerRoleArn = options.accountRoles.installerRoleARN,
                                 !.oidcConfigID = r.id]
                  /\ Started("createOIDCConfig")
                  /\ Finished("createOIDCConfig", r.err)
                  /\ calls' = calls \o r.calls
                  /\ IF CreateAborts(r.err)
                     THEN /\ Return("", CreateError(r.err))
                          /\ UNCHANGED options
                     ELSE /\ options' = [options EXCEPT !.oidcConfigID = r.id]
                          /\ pc' = "vpc"
                          /\ UNCHANGED ret
    /\ UNCHANGED <<invocations, tmpDir, op, cancelledAt, awsRoles, i, predCalls, clusterState, clusterID, oidcConfigID, ensured>>
    /\ environ' = EnvAfter(environ, SubSeq(calls', Len(calls) + 1, Len(calls')))

\* createHostedControlPlaneVPC; options.subnetIDs = "<private>,<public>"
CreateVPCStep ==
    /\ op = "CreateCluster" /\ pc = "vpc"
    /\ \E env \in VpcEnv :
          LET r == createHostedControlPlaneVPC(options.ClusterName, AwsRegion, WorkingDir, env)
          IN  /\ Started("createHostedControlPlaneVPC")
              /\ Finished("createHostedControlPlaneVPC", r.err)
              /\ flow' = [flow EXCEPT !.vpc = r.vpc]
              /\ calls' = calls \o r.calls
              /\ IF CreateAborts(r.err)
                 THEN /\ Return("", CreateError(r.err))
                      /\ UNCHANGED options
                 ELSE IF r.nil
                 THEN \* vpc.privateSubnet of a nil pointer
                      /\ pc' = "panic"
                      /\ UNCHANGED <<options, ret>>
                 ELSE /\ options' = [options EXCEPT
                            !.subnetIDs = SubnetIDs(r.vpc)]
                      /\ pc' = "createCluster"
                      /\ UNCHANGED ret
    /\ UNCHANGED <<invocations, tmpDir, op, cancelledAt, awsRoles, attempts, i, predCalls, clusterState, clusterID,
                   oidcConfigID, ensured>>
    /\ environ' = EnvAfter(environ, SubSeq(calls', Len(calls) + 1, Len(calls')))

\* clusterID, err := r.createCluster(ctx, options); also createCluster called on its own
CreateClusterStep ==
    /\ op \in {"CreateCluster", "createCluster"} /\ pc = "createCluster"
    /\ \E env \in ClusterEnv :
          LET r == createCluster(options, env)
          IN  /\ Started("createCluster")
              /\ Finished("createCluster", r.err)
              /\ calls' = calls \o r.calls
              /\ options' = r.options
              /\ ensured' = IF Len(r.calls) = 2 THEN <<env.lookup>> ELSE ensured
              /\ flow' = IF r.calls = <<>> THEN flow
                         ELSE [flow EXCEPT !.args = <<CreateClusterArgs(r.options)>>]
              /\ IF op = "createCluster"
                 THEN /\ Return(r.id, r.err)
                      /\ UNCHANGED clusterID
                 ELSE IF CreateAborts(r.err)
                 THEN /\ Return("", CreateError(r.err))
                      /\ UNCHANGED clusterID
                 ELSE /\ clusterID' = r.id
                      /\ pc' = "waitReady"
                      /\ UNCHANGED ret
    /\ UNCHANGED <<invocations, tmpDir, op, cancelledAt, awsRoles, attempts, i, predCalls, clusterState, oidcConfigID>>
    /\ environ' = EnvAfter(environ, SubSeq(calls', Len(calls) + 1, Len(calls')))

\* one iteration of the loop of waitForClusterToBeReady: describe the cluster,
\* sleep and continue unless its state is "ready"
WaitReadyAttempt ==
    /\ op \in {"CreateCluster", "waitForClusterToBeReady"} /\ pc = "waitReady"
    /\ LoopContinues(i, attempts)
    /\ \E outcome \in { o \in DescribeOutcomes : Cancelled => o = "error" } :
          /\ clusterState' = IF DescribePanics(outcome) THEN "" ELSE ObservedState(outcome)
          /\ predCalls' = predCalls + 1
          /\ steps' = IF predCalls = 0 THEN Append(steps, "waitForClusterToBeReady") ELSE steps
          /\ IF DescribePanics(outcome)
             THEN /\ pc' = "panic"
                  /\ UNCHANGED <<i, okSteps, ret>>
             ELSE IF NotReady(ObservedState(outcome))
             THEN /\ i' = i + 1
                  /\ UNCHANGED <<pc, okSteps, ret>>
             ELSE /\ Finished("waitForClusterToBeReady", NoErr)
                  /\ i' = i
                  /\ IF op = "CreateCluster"
                     THEN pc' = "kubeConfig" /\ UNCHANGED ret
                     ELSE Return("", NoErr)
    /\ UNCHANGED <<flow, invocations, tmpDir, op, cancelledAt, options, awsRoles, calls, attempts, clusterID, oidcConfigID, ensured>>
    /\ environ' = CallFuncWithCredentials(ProviderCredentials, environ, NoErr).environ

\* the loop of waitForClusterToBeReady ends: the attempts are used up
WaitReadyTimeout ==
    /\ op \in {"CreateCluster", "waitForClusterToBeReady"} /\ pc = "waitReady"
    /\ ~LoopContinues(i, attempts)
    /\ steps' = IF predCalls = 0 THEN Append(steps, "waitForClusterToBeReady") ELSE steps
    /\ IF op = "waitForClusterToBeReady"
       THEN Return("", <<"failed to enter ready state in the alloted attempts">>)
       ELSE IF CreateAborts(<<"failed to enter ready state in the alloted attempts">>)
       THEN Return(clusterID, CreateError(<<"failed to enter ready state in the alloted attempts">>))
       ELSE pc' = "kubeConfig" /\ UNCHANGED ret
    /\ UNCHANGED <<flow, invocations, tmpDir, op, cancelledAt, options, awsRoles, calls, okSteps, attempts, i, predCalls,
                   clusterState, clusterID, oidcConfigID, ensured>>
    /\ environ' = EnvAfter(environ, SubSeq(calls', Len(calls) + 1, Len(calls')))

\* kubeConfigFile, err := r.Client.KubeConfigFile(ctx, clusterID)
CreateKubeConfigStep ==
    /\ op = "CreateCluster" /\ pc = "kubeConfig"
    /\ \E fails \in CommandFailures :
          LET err == IF fails THEN <<"failed to get credentials">> ELSE NoErr
          IN  /\ Started("KubeConfigFile")
              /\ Finished("KubeConfigFile", err)
              /\ calls' = Append(calls, "ocm get credentials")
              /\ IF CreateAborts(err)
                 THEN Return(clusterID, CreateError(err))
                 ELSE pc' = "healthChecks" /\ UNCHANGED ret
    /\ UNCHANGED <<flow, invocations, tmpDir, op, cancelledAt, options, awsRoles, attempts, i, predCalls, clusterState,
                   clusterID, oidcConfigID, ensured>>
    /\ environ' = EnvAfter(environ, SubSeq(calls', Len(calls) + 1, Len(calls')))

\* filename := fmt.Sprintf("%s-kubeconfig", clusterID)
KubeConfigFilename(id) == id \o "-kubeconfig"

\* mutant: the unset is skipped when the client cannot be built
DeferredUnsetenvMutant(env, outcome) ==
    IF outcome = "client fails" THEN env ELSE [env EXCEPT !.KUBECONFIG = Unset]

\* defer func() { _ = os.Unsetenv("KUBECONFIG") }(): runs on every return
DeferredUnsetenv(env, outcome) == [env EXCEPT !.KUBECONFIG = Unset]

\* err = r.waitForClusterHealthChecksToSucceed(ctx, kubeConfigFile, options.HostedCP):
\* os.Setenv("KUBECONFIG", kubeConfigFile)
CreateHealthChecksSetenv ==
    /\ op = "CreateCluster" /\ pc = "healthChecks"
    /\ Started("waitForClusterHealthChecksToSucceed")
    /\ pc' = "healthChecking"
    /\ environ' = [environ EXCEPT !.KUBECONFIG = KubeConfigFilename(clusterID)]
    /\ UNCHANGED <<flow, invocations, tmpDir, op, cancelledAt, options, awsRoles, calls, okSteps,
                   attempts, i, predCalls, clusterState, clusterID, oidcConfigID, ensured, ret>>

\* kubernetes.New(), the health check, and the deferred unset on return
CreateHealthChecksStep ==
    /\ op = "CreateCluster" /\ pc = "healthChecking"
    /\ \E outcome \in HealthOutcomes :
          LET err == waitForClusterHealthChecksToSucceed(options.HostedCP, outcome)
          IN  /\ Finished("waitForClusterHealthChecksToSucceed", err)
              /\ environ' = DeferredUnsetenv(environ, outcome)
              /\ IF CreateAborts(err)
                 THEN Return(clusterID, CreateError(err))
                 ELSE Return(clusterID, NoErr)
    /\ UNCHANGED <<flow, invocations, tmpDir, op, cancelledAt, options, awsRoles, calls, steps,
                   attempts, i, predCalls, clusterState, clusterID, oidcConfigID, ensured>>

----------------------------------------------------------------------------
(* Provider.createAccountRoles called twice with the same prefix and version *)

EnsureAccountRoles ==
    /\ op = "createAccountRoles" /\ pc = "ensure"
    /\ \E env \in RolesEnv :
          LET r == createAccountRoles(options.prefix, options.version, awsRoles, env)
          IN  /\ ensured' = Append(ensured, [nil |-> r.nil, roles |-> r.roles,
                                             err |-> r.err, calls |-> r.calls,
                                             listed |-> awsRoles, env |-> env])
              /\ calls' = calls \o r.calls
              /\ awsRoles' = r.awsRoles
              /\ pc' = IF Len(ensured) = 1 THEN "done" ELSE "ensure"
    /\ UNCHANGED <<flow, invocations, tmpDir, op, cancelledAt, options, steps, okSteps, attempts, i, predCalls, clusterState,
                   clusterID, oidcConfigID, ret>>
    /\ environ' = EnvAfter(environ, SubSeq(calls', Len(calls) + 1, Len(calls')))

----------------------------------------------------------------------------
(* Provider.DeleteCluster                                                  *)

RECURSIVE RemoveRoles(_, _)
\* what `rosa delete account-roles --prefix p` leaves in the account
RemoveRoles(roles, prefix) ==
    IF roles = <<>> THEN <<>>
    ELSE (IF HasPrefix(Head(roles).RoleName, prefix) THEN <<>> ELSE <<Head(roles)>>)
         \o RemoveRoles(Tail(roles), prefix)

\* what one clusters lookup of the deletion poll established
LookupSeen(lookup) ==
    IF lookup.fails THEN "lookup failed"
    ELSE IF lookup.total = 1 THEN "uninstalling"
    ELSE IF lookup.total = 0 THEN "not found"
    ELSE "several found"

\* options.setDefaultDeleteClusterOptions(); clusterDeletedAttempts = 30
DeleteSetDefaults ==
    /\ op = "DeleteCluster" /\ pc = "setDefaults"
    /\ options' = setDefaultClusterOptions(options)
    /\ attempts' = ClusterDeletedAttempts
    /\ pc' = "resolveOIDCConfig"
    /\ UNCHANGED <<flow, invocations, tmpDir, op, cancelledAt, awsRoles, calls, steps, okSteps, i, predCalls, clusterState,
                   clusterID, oidcConfigID, ensured, ret>>
    /\ environ' = EnvAfter(environ, SubSeq(calls', Len(calls) + 1, Len(calls')))

\* if options.HostedCP { oidcConfig, err := r.getClusterOIDCConfig(...); oidcConfigID = oidcConfig.ID() }
DeleteResolveOIDCConfigStep ==
    /\ op = "DeleteCluster" /\ pc = "resolveOIDCConfig"
    /\ IF ~IfHostedCP(options)
       THEN /\ pc' = "deleteCluster"
            /\ UNCHANGED <<calls, steps, okSteps, oidcConfigID, ret>>
       ELSE \E getFails \in BOOLEAN, attached \in {"", "oidc-c1"} :
              LET r == getClusterOIDCConfig(options.ClusterID, getFails, attached)
              IN  /\ Started("getClusterOIDCConfig")
                  /\ Finished("getClusterOIDCConfig", r.err)
                  /\ calls' = calls \o r.calls
                  /\ IF DeleteAborts(r.err)
                     THEN /\ Return("", DeleteError(r.err))
                          /\ UNCHANGED oidcConfigID
                     ELSE /\ oidcConfigID' = r.ID
                          /\ pc' = "deleteCluster"
                          /\ UNCHANGED ret
    /\ UNCHANGED <<flow, invocations, tmpDir, op, cancelledAt, options, awsRoles, attempts, i, predCalls, clusterState,
                   clusterID, ensured>>
    /\ environ' = EnvAfter(environ, SubSeq(calls', Len(calls) + 1, Len(calls')))

\* err := r.deleteCluster(ctx, options.ClusterID)
DeleteClusterStep ==
    /\ op = "DeleteCluster" /\ pc = "deleteCluster"
    /\ \E cmdFails \in CommandFailures :
          LET r == deleteCluster(options.ClusterID, cmdFails)
          IN  /\ Started("deleteCluster")
              /\ Finished("deleteCluster", r.err)
              /\ calls' = calls \o r.calls
              /\ IF DeleteAborts(r.err)
                 THEN Return("", DeleteError(r.err))
                 ELSE pc' = "waitDeleted" /\ UNCHANGED ret
    /\ UNCHANGED <<flow, invocations, tmpDir, op, cancelledAt, options, awsRoles, attempts, i, predCalls, clusterState,
                   clusterID, oidcConfigID, ensured>>
    /\ environ' = EnvAfter(environ, SubSeq(calls', Len(calls) + 1, Len(calls')))

\* one iteration of the loop of waitForClusterToBeDeleted: look the cluster up,
\* sleep and continue only if err == nil && cluster != nil
WaitDeletedAttempt ==
    /\ op = "DeleteCluster" /\ pc = "waitDeleted"
    /\ LoopContinues(i, attempts)
    /\ \E lookup \in { l \in ClusterLookups : Cancelled => l.fails } :
          LET cluster == getCluster(options.ClusterName, lookup)
          IN  /\ clusterState' = LookupSeen(lookup)
              /\ predCalls' = predCalls + 1
              /\ steps' = IF predCalls = 0
                          THEN Append(steps, "waitForClusterToBeDeleted") ELSE steps
              /\ IF cluster.err = NoErr /\ ~cluster.nil
                 THEN /\ i' = i + 1
                      /\ UNCHANGED <<pc, okSteps>>
                 ELSE /\ Finished("waitForClusterToBeDeleted", NoErr)
                      /\ i' = i
                      /\ pc' = "deleteOperatorRoles"
    /\ UNCHANGED <<flow, invocations, tmpDir, op, cancelledAt, options, awsRoles, calls, attempts, clusterID, oidcConfigID,
                   ensured, ret>>
    /\ environ' = EnvAfter(environ, SubSeq(calls', Len(calls) + 1, Len(calls')))

\* the loop of waitForClusterToBeDeleted ends: the attempts are used up
WaitDeletedTimeout ==
    /\ op = "DeleteCluster" /\ pc = "waitDeleted"
    /\ ~LoopContinues(i, attempts)
    /\ steps' = IF predCalls = 0 THEN Append(steps, "waitForClusterToBeDeleted") ELSE steps
    /\ IF DeleteAborts(<<"failed to finish uninstalling in the alloted attempts">>)
       THEN Return("", DeleteError(<<"failed to finish uninstalling in the alloted attempts">>))
       ELSE pc' = "deleteOperatorRoles" /\ UNCHANGED ret
    /\ UNCHANGED <<flow, invocations, tmpDir, op, cancelledAt, options, awsRoles, calls, okSteps, attempts, i, predCalls,
                   clusterState, clusterID, oidcConfigID, ensured>>
    /\ environ' = EnvAfter(environ, SubSeq(calls', Len(calls) + 1, Len(calls')))

\* if options.STS { err = r.deleteOperatorRoles(ctx, options.ClusterID) ...
DeleteOperatorRolesStep ==
    /\ op = "DeleteCluster" /\ pc = "deleteOperatorRoles"
    /\ IF ~IfSTS(options)
       THEN /\ pc' = "deleteOIDCConfig"
            /\ UNCHANGED <<calls, steps, okSteps, ret>>
       ELSE \E cmdFails \in CommandFailures :
              LET r == deleteOperatorRoles(options.ClusterID, cmdFails)
              IN  /\ Started("deleteOperatorRoles")
                  /\ Finished("deleteOperatorRoles", r.err)
                  /\ calls' = calls \o r.calls
                  /\ IF DeleteAborts(r.err)
                     THEN Return("", DeleteError(r.err))
                     ELSE pc' = "deleteOIDCConfigProvider" /\ UNCHANGED ret
    /\ UNCHANGED <<flow, invocations, tmpDir, op, cancelledAt, options, awsRoles, attempts, i, predCalls, clusterState,
                   clusterID, oidcConfigID, ensured>>
    /\ environ' = EnvAfter(environ, SubSeq(calls', Len(calls) + 1, Len(calls')))

\* ... err = r.deleteOIDCConfigProvider(ctx, options.ClusterID) }
DeleteOIDCConfigProviderStep ==
    /\ op = "DeleteCluster" /\ pc = "deleteOIDCConfigProvider"
    /\ \E cmdFails \in CommandFailures :
          LET r == deleteOIDCConfigProvider(options.ClusterID, cmdFails)
          IN  /\ Started("deleteOIDCConfigProvider")
              /\ Finished("deleteOIDCConfigProvider", r.err)
              /\ calls' = calls \o r.calls
              /\ IF DeleteAborts(r.err)
                 THEN Return("", DeleteError(r.err))
                 ELSE pc' = "deleteOIDCConfig" /\ UNCHANGED ret
    /\ UNCHANGED <<flow, invocations, tmpDir, op, cancelledAt, options, awsRoles, attempts, i, predCalls, clusterState,
                   clusterID, oidcConfigID, ensured>>
    /\ environ' = EnvAfter(environ, SubSeq(calls', Len(calls) + 1, Len(calls')))

\* if options.HostedCP { err := r.deleteOIDCConfig(ctx, oidcConfigID) ...
DeleteOIDCConfigStep ==
    /\ op = "DeleteCluster" /\ pc = "deleteOIDCConfig"
    /\ IF ~IfHostedCP(options)
       THEN /\ pc' = "deleteAccountRoles"
            /\ UNCHANGED <<calls, steps, okSteps, ret>>
       ELSE \E cmdFails \in CommandFailures :
              LET r == deleteOIDCConfig(oidcConfigID, cmdFails)
              IN  /\ Started("deleteOIDCConfig")
                  /\ Finished("deleteOIDCConfig", r.err)
                  /\ calls' = calls \o r.calls
                  /\ IF DeleteAborts(r.err)
                     THEN Return("", DeleteError(r.err))
                     ELSE pc' = "deleteVPC" /\ UNCHANGED ret
    /\ UNCHANGED <<flow, invocations, tmpDir, op, cancelledAt, options, awsRoles, attempts, i, predCalls, clusterState,
                   clusterID, oidcConfigID, ensured>>
    /\ environ' = EnvAfter(environ, SubSeq(calls', Len(calls) + 1, Len(calls')))

\* ... err = r.deleteHostedControlPlaneVPC(ctx, options.ClusterName, region, "/tmp") }
DeleteVPCStep ==
    /\ op = "DeleteCluster" /\ pc = "deleteVPC"
    /\ \E failAt \in { f \in DestroyFailures : Cancelled => f \in {"new", "init"} } :
          LET r == deleteHostedControlPlaneVPC(options.ClusterName, AwsRegion, WorkingDir, failAt)
          IN  /\ Started("deleteHostedControlPlaneVPC")
              /\ Finished("deleteHostedControlPlaneVPC", r.err)
              /\ calls' = calls \o r.calls
              /\ IF DeleteAborts(r.err)
                 THEN Return("", DeleteError(r.err))
                 ELSE pc' = "deleteAccountRoles" /\ UNCHANGED ret
    /\ UNCHANGED <<flow, invocations, tmpDir, op, cancelledAt, options, awsRoles, attempts, i, predCalls, clusterState,
                   clusterID, oidcConfigID, ensured>>
    /\ environ' = EnvAfter(environ, SubSeq(calls', Len(calls) + 1, Len(calls')))

\* if options.STS { err = r.deleteAccountRoles(ctx, options.ClusterName) }; return nil
DeleteAccountRolesStep ==
    /\ op = "DeleteCluster" /\ pc = "deleteAccountRoles"
    /\ IF ~IfSTS(options)
       THEN /\ Return("", NoErr)
            /\ UNCHANGED <<awsRoles, calls, steps, okSteps>>
       ELSE \E cmdFails \in CommandFailures :
              LET r == deleteAccountRoles(options.ClusterName, cmdFails)
              IN  /\ Started("deleteAccountRoles")
                  /\ Finished("deleteAccountRoles", r.err)
                  /\ calls' = calls \o r.calls
                  /\ awsRoles' = IF r.err = NoErr
                                 THEN RemoveRoles(awsRoles, options.ClusterName)
                                 ELSE awsRoles
                  /\ IF DeleteAborts(r.err)
                     THEN Return("", DeleteError(r.err))
                     ELSE Return("", NoErr)
    /\ UNCHANGED <<flow, invocations, tmpDir, op, cancelledAt, options, attempts, i, predCalls, clusterState, clusterID,
                   oidcConfigID, ensured>>
    /\ environ' = EnvAfter(environ, SubSeq(calls', Len(calls) + 1, Len(calls')))

----------------------------------------------------------------------------
(* The caller cancels ctx while a poll is in progress                      *)

Cancel ==
    /\ op \in {"waitForClusterToBeReady", "DeleteCluster"}
    /\ pc \in {"waitReady", "waitDeleted"}
    /\ ~Cancelled
    /\ cancelledAt' = predCalls
    /\ UNCHANGED <<flow, invocations, tmpDir, op, pc, options, awsRoles, calls, steps, okSteps, attempts, i,
                   predCalls, clusterState, clusterID, oidcConfigID, ensured, environ, ret>>

----------------------------------------------------------------------------
(* AWSCredentials.CallFuncWithCredentials and Provider.createOIDCConfig,   *)
(* each called on its own                                                  *)

\* New called on its own: ensured holds the provider it returns
NewStep ==
    /\ op = "New" /\ pc = "New"
    /\ \E failure \in NewFailures :
          LET r == New(options.token, options.environment, options.args, environ, failure)
          IN  /\ environ' = r.environ
              /\ calls' = r.calls
              /\ IF r.panic
                 THEN pc' = "panic" /\ UNCHANGED <<ret, ensured>>
                 ELSE /\ Return("", r.err)
                      /\ ensured' = <<[nil |-> r.nil, awsCredentials |-> r.credentials]>>
    /\ UNCHANGED <<flow, invocations, tmpDir, op, cancelledAt, options, awsRoles, steps, okSteps,
                   attempts, i, predCalls, clusterState, clusterID, oidcConfigID>>

\* c.ValidateAndFetchCredentials() before the call: ensured holds what it returned
ValidateAndFetchCredentialsStep ==
    /\ op = "CallFuncWithCredentials" /\ pc = "call"
    /\ ensured = <<>>
    /\ LET r == ValidateAndFetchCredentials(options.credentials, environ)
       IN  /\ options' = [options EXCEPT !.credentials = r.credentials]
           /\ ensured' = <<[err |-> r.err]>>
    /\ UNCHANGED <<flow, invocations, tmpDir, op, pc, cancelledAt, awsRoles, calls, steps, okSteps,
                   attempts, i, predCalls, clusterState, clusterID, oidcConfigID, environ, ret>>

CallFuncWithCredentialsStep ==
    /\ op = "CallFuncWithCredentials" /\ pc = "call"
    /\ \E fErr \in {NoErr, <<"f failed">>} :
          LET r == CallFuncWithCredentials(options.credentials, environ, fErr)
          IN  /\ environ' = r.environ
              /\ steps' = IF r.called THEN Append(steps, "f") ELSE steps
              /\ okSteps' = IF r.called /\ r.err = NoErr THEN okSteps \cup {"f"} ELSE okSteps
              /\ Return("", r.err)
    /\ UNCHANGED <<flow, invocations, tmpDir, op, cancelledAt, options, awsRoles, calls, attempts, i, predCalls,
                   clusterState, clusterID, oidcConfigID, ensured>>

EnsureOIDCConfig ==
    /\ op = "createOIDCConfig" /\ pc = "ensure"
    /\ \E env \in OidcEnv :
          LET r == createOIDCConfig(options.prefix, options.installerRoleArn, env)
          IN  /\ ensured' = Append(ensured, [id |-> r.id, err |-> r.err,
                                             calls |-> r.calls, env |-> env])
              /\ calls' = calls \o r.calls
              /\ Return(r.id, r.err)
    /\ UNCHANGED <<flow, invocations, tmpDir, op, cancelledAt, options, awsRoles, steps, okSteps, attempts, i,
                   predCalls, clusterState, clusterID, oidcConfigID>>
    /\ environ' = EnvAfter(environ, SubSeq(calls', Len(calls) + 1, Len(calls')))

----------------------------------------------------------------------------
(* Provider.hcpClusterInstallHealthChecks called on its own                *)

\* one call of the condition by wait.PollUntilContextTimeout: an error of the
\* condition ends the poll with that error, done ends it with success
PollNodes ==
    /\ op = "hcpClusterInstallHealthChecks" /\ pc = "pollNodes"
    /\ predCalls < attempts
    /\ \E listed \in NodeListOutcomes :
          LET r == NodesCondition(listed)
          IN  /\ ensured' = <<listed>>
              /\ predCalls' = predCalls + 1
              /\ calls' = Append(calls, "list nodes")
              /\ IF r.err # NoErr
                 THEN Return("", Wrap("hosted control plane cluster health check failed", r.err))
                 ELSE IF r.done
                 THEN Return("", NoErr)
                 ELSE UNCHANGED <<pc, ret>>
    /\ UNCHANGED <<flow, invocations, tmpDir, op, cancelledAt, options, awsRoles, steps, okSteps, attempts, i,
                   clusterState, clusterID, oidcConfigID, environ>>

\* the 10 minute window of the poll is over
PollNodesTimeout ==
    /\ op = "hcpClusterInstallHealthChecks" /\ pc = "pollNodes"
    /\ predCalls >= attempts
    /\ Return("", <<"hosted control plane cluster health check failed",
                    "context deadline exceeded">>)
    /\ UNCHANGED <<flow, invocations, tmpDir, op, cancelledAt, options, awsRoles, calls, steps, okSteps, attempts, i,
                   predCalls, clusterState, clusterID, oidcConfigID, ensured, environ>>

----------------------------------------------------------------------------
(* osd Provider.addGateAgreement called twice for the same upgrade         *)

\* the gate agreements of the cluster now
ClusterGateAgreements ==
    IF ensured = <<>> THEN options.agreements ELSE ensured[Len(ensured)].after

AddGateAgreementCall ==
    /\ op = "addGateAgreement" /\ pc = "addGateAgreement"
    /\ \E failure \in GateFailures :
          LET r == addGateAgreement(ClusterGateAgreements, options.versionGates,
                                    options.clusterID, options.currentVersion,
                                    options.upgradeVersion, failure)
          IN  /\ ensured' = Append(ensured, [before |-> ClusterGateAgreements,
                                             after |-> r.agreements, calls |-> r.calls,
                                             err |-> r.err, failure |-> failure])
              /\ calls' = calls \o r.calls
              /\ IF Len(ensured) = 1
                 THEN Return("", r.err)
                 ELSE UNCHANGED <<pc, ret>>
    /\ UNCHANGED <<flow, invocations, tmpDir, op, cancelledAt, options, awsRoles, steps, okSteps,
                   attempts, i, predCalls, clusterState, clusterID, oidcConfigID, environ>>

----------------------------------------------------------------------------
(* osd Provider.OCMUpgrade called on its own                               *)

\* a step of OCMUpgrade before its loop returned err and sent newCalls
UpgradeStep(step, err, newCalls, nextPc) ==
    /\ Started(step)
    /\ calls' = calls \o newCalls
    /\ IF err # NoErr
       THEN Return("", UpgradeError(err))
       ELSE pc' = nextPc /\ UNCHANGED ret

\* dynamicClient, err := getKubernetesDynamicClient(client)
OCMUpgradeDynamicClient ==
    /\ op = "OCMUpgrade" /\ pc = "getKubernetesDynamicClient"
    /\ \E fails \in BOOLEAN :
          UpgradeStep("getKubernetesDynamicClient",
                      IF fails THEN <<"failed to create kubernetes dynamic client">> ELSE NoErr,
                      <<>>, "addGateAgreement")
    /\ UNCHANGED <<options, i>>
    /\ UNCHANGED <<flow, invocations, tmpDir, op, cancelledAt, awsRoles, okSteps,
                   attempts, predCalls, clusterState, clusterID, oidcConfigID, ensured, environ>>

\* err = o.addGateAgreement(ctx, clusterID, currentVersion, upgradeVersion)
OCMUpgradeAddGateAgreement ==
    /\ op = "OCMUpgrade" /\ pc = "addGateAgreement"
    /\ \E failure \in GateFailures :
          LET r == addGateAgreement(options.agreements, options.versionGates,
                                    options.clusterID, options.currentVersion,
                                    options.upgradeVersion, failure)
          IN  /\ UpgradeStep("addGateAgreement", r.err, r.calls, "initiateUpgrade")
              /\ options' = [options EXCEPT !.agreements = r.agreements]
    /\ UNCHANGED i
    /\ UNCHANGED <<flow, invocations, tmpDir, op, cancelledAt, awsRoles, okSteps,
                   attempts, predCalls, clusterState, clusterID, oidcConfigID, ensured, environ>>

\* err = o.initiateUpgrade(ctx, clusterID, upgradeVersion.String())
OCMUpgradeInitiateUpgrade ==
    /\ op = "OCMUpgrade" /\ pc = "initiateUpgrade"
    /\ \E outcome \in {"ok", "build fails", "add fails", "not created"} :
          LET r == initiateUpgrade(options.clusterID, VersionString(options.upgradeVersion),
                                   outcome)
          IN  UpgradeStep("initiateUpgrade", r.err, r.calls, "restartManagedUpgradeOperator")
    /\ UNCHANGED <<options, i>>
    /\ UNCHANGED <<flow, invocations, tmpDir, op, cancelledAt, awsRoles, okSteps,
                   attempts, predCalls, clusterState, clusterID, oidcConfigID, ensured, environ>>

\* err = o.restartManagedUpgradeOperator(ctx, client)
OCMUpgradeRestartOperator ==
    /\ op = "OCMUpgrade" /\ pc = "restartManagedUpgradeOperator"
    /\ \E outcome \in {"ok", "not available", "scale down fails", "scale up fails"} :
          LET r == restartManagedUpgradeOperator(outcome)
          IN  UpgradeStep("restartManagedUpgradeOperator", r.err, r.calls,
                          "managedUpgradeConfigExist")
    /\ UNCHANGED <<options, i>>
    /\ UNCHANGED <<flow, invocations, tmpDir, op, cancelledAt, awsRoles, okSteps,
                   attempts, predCalls, clusterState, clusterID, oidcConfigID, ensured, environ>>

\* one iteration of the loop of managedUpgradeConfigExist; listing no upgrade
\* config makes getManagedUpgradeOperatorConfig index an empty list
OCMUpgradeConfigExistAttempt ==
    /\ op = "OCMUpgrade" /\ pc = "managedUpgradeConfigExist"
    /\ LoopContinues(i, upgradeConfigExistAttempts)
    /\ steps' = IF i = 1 THEN Append(steps, "managedUpgradeConfigExist") ELSE steps
    /\ \E outcome \in {"get failed", "no items", "exists"} :
          CASE outcome = "get failed" -> i' = i + 1 /\ UNCHANGED <<pc, ret>>
            [] outcome = "no items"   -> pc' = "panic" /\ UNCHANGED <<i, ret>>
            [] outcome = "exists"     -> pc' = "upgradeLoop" /\ i' = 1 /\ UNCHANGED ret
    /\ UNCHANGED <<options, calls>>
    /\ UNCHANGED <<flow, invocations, tmpDir, op, cancelledAt, awsRoles, okSteps,
                   attempts, predCalls, clusterState, clusterID, oidcConfigID, ensured, environ>>

\* the loop of managedUpgradeConfigExist ends
OCMUpgradeConfigExistTimeout ==
    /\ op = "OCMUpgrade" /\ pc = "managedUpgradeConfigExist"
    /\ ~LoopContinues(i, upgradeConfigExistAttempts)
    /\ Return("", UpgradeError(<<"managed upgrade config never existed on the cluster">>))
    /\ UNCHANGED <<options, calls, steps, i>>
    /\ UNCHANGED <<flow, invocations, tmpDir, op, cancelledAt, awsRoles, okSteps,
                   attempts, predCalls, clusterState, clusterID, oidcConfigID, ensured, environ>>

\* one iteration of `for i := 1; i <= upgradeMaxAttempts; i++`; okSteps
\* records that the phase Upgraded has been seen
OCMUpgradeAttempt ==
    /\ op = "OCMUpgrade" /\ pc = "upgradeLoop"
    /\ LoopContinues(i, attempts)
    /\ \E config \in UpgradeConfigs(VersionString(options.upgradeVersion)) :
          LET r == UpgradeIteration(config, VersionString(options.upgradeVersion))
          IN  /\ clusterState' = r.phase
              /\ okSteps' = IF r.phase = "Upgraded" THEN okSteps \cup {"Upgraded"} ELSE okSteps
              /\ CASE r.next = "return error" -> Return("", <<"upgrade failed">>) /\ UNCHANGED i
                   [] r.next = "panic"        -> pc' = "panic" /\ UNCHANGED <<i, ret>>
                   [] r.next = "continue"     -> i' = i + 1 /\ UNCHANGED <<pc, ret>>
    /\ UNCHANGED <<flow, invocations, tmpDir, op, cancelledAt, options, awsRoles, calls, steps,
                   attempts, predCalls, clusterID, oidcConfigID, ensured, environ>>

\* the loop ends: `return nil`
OCMUpgradeLoopEnds ==
    /\ op = "OCMUpgrade" /\ pc = "upgradeLoop"
    /\ ~LoopContinues(i, attempts)
    /\ Return("", NoErr)
    /\ UNCHANGED <<flow, invocations, tmpDir, op, cancelledAt, options, awsRoles, calls, steps,
                   okSteps, attempts, i, predCalls, clusterState, clusterID, oidcConfigID,
                   ensured, environ>>

----------------------------------------------------------------------------
(* The specification                                                       *)

Next ==
    \/ CreateSetDefaults
    \/ CreateAccountRolesStep
    \/ CreateOIDCConfigStep
    \/ CreateVPCStep
    \/ CreateClusterStep
    \/ WaitReadyAttempt
    \/ WaitReadyTimeout
    \/ CreateKubeConfigStep
    \/ CreateHealthChecksSetenv
    \/ CreateHealthChecksStep
    \/ EnsureAccountRoles
    \/ DeleteSetDefaults
    \/ DeleteResolveOIDCConfigStep
    \/ DeleteClusterStep
    \/ WaitDeletedAttempt
    \/ WaitDeletedTimeout
    \/ DeleteOperatorRolesStep
    \/ DeleteOIDCConfigProviderStep
    \/ DeleteOIDCConfigStep
    \/ DeleteVPCStep
    \/ DeleteAccountRolesStep
    \/ Cancel
    \/ NewStep
    \/ ValidateAndFetchCredentialsStep
    \/ CallFuncWithCredentialsStep
    \/ EnsureOIDCConfig
    \/ PollNodes
    \/ PollNodesTimeout
    \/ OCMUpgradeDynamicClient
    \/ OCMUpgradeAddGateAgreement
    \/ OCMUpgradeInitiateUpgrade
    \/ OCMUpgradeRestartOperator
    \/ OCMUpgradeConfigExistAttempt
    \/ OCMUpgradeConfigExistTimeout
    \/ OCMUpgradeAttempt
    \/ OCMUpgradeLoopEnds
    \/ AddGateAgreementCall

Spec == Init /\ [][Next]_vars

\* every external call returns: the step the program is at is taken
FairSpec == Init /\ [][Next]_vars /\ WF_vars(Next)

----------------------------------------------------------------------------
(* Two hosted-control-plane CreateCluster calls for different clusters      *)
(* running concurrently in one process, every external call succeeding. Of  *)
(* each call the statements that read or write what the process shares are  *)
(* kept, in program order: the environment (os.Setenv in                    *)
(* CallFuncWithCredentials and in waitForClusterHealthChecksToSucceed, read *)
(* by the commands run afterwards) and the working directory "/tmp" that    *)
(* CreateCluster passes to createHostedControlPlaneVPC. The branches of     *)
(* createAccountRoles and createOIDCConfig follow what the account holds.   *)

Invocations == 1..2

ConcurrentClusters == <<"c1", "c2">>

\* options.ClusterName of each call, the prefix of its roles and OIDC config
ConcurrentPrefixes == << <<"c", "1">>, <<"c", "2">> >>

ConcurrentProfiles == {"profile-1", "profile-2"}

\* describe calls one concurrent call makes at most before the cluster is ready
MaxDescribes == 2

\* the file name KubeConfigFile returns for the cluster
KubeConfigFile(clusterName) ==
    IF clusterName = "c1" THEN "cluster-c1-kubeconfig" ELSE "cluster-c2-kubeconfig"

\* the account roles `rosa list account-roles` prints when the calls start:
\* none, those of the first cluster, those of both
ConcurrentRoleListings ==
    { <<>>,
      NewAccountRoles(ConcurrentPrefixes[1], MajorMinor(<<"4", "12", "6">>)),
      NewAccountRoles(ConcurrentPrefixes[1], MajorMinor(<<"4", "12", "6">>))
        \o NewAccountRoles(ConcurrentPrefixes[2], MajorMinor(<<"4", "12", "6">>)) }

\* the OIDC configs the cluster-management API lists: none, one of the first
\* cluster, one of each
ConcurrentOidcListings ==
    { <<>>,
      << OidcEntry("oidc-c1", <<"s", "/", "c", "1">>) >>,
      << OidcEntry("oidc-c1", <<"s", "/", "c", "1">>),
         OidcEntry("oidc-c2", <<"s", "/", "c", "2">>) >> }

Invocation(k, profile, configs) ==
    [pc |-> "roles.setenv",
     clusterName |-> ConcurrentClusters[k],
     prefix |-> ConcurrentPrefixes[k],
     version |-> MajorMinor(<<"4", "12", "6">>),
     configs |-> configs,      \* what the OIDC config list request answers
     credentials |-> AWSCredentials("", profile, "r1", ""),
     kubeConfigFile |-> KubeConfigFile(ConcurrentClusters[k]),
     describes |-> 0,          \* describe calls made
     usedProfiles |-> {},      \* AWS_PROFILE values its commands ran with
     partialTemplate |-> FALSE,\* a terraform command read setup-vpc.tf truncated
     planOf |-> "",            \* whose plan tf.Apply found in the directory
     outputOf |-> "",          \* the cluster whose terraform state tf.Output read
     toolMissing |-> FALSE,    \* a terraform command ran after the tool was removed
     usedKubeconfig |-> ""]    \* KUBECONFIG kubernetes.New() loaded

\* everything but the account, the process environment, the directory and the
\* concurrent calls
SequentialVars ==
    <<op, pc, options, calls, steps, okSteps, attempts, i, predCalls,
      clusterState, clusterID, oidcConfigID, ensured, cancelledAt, ret, flow>>

ConcurrentInit ==
    /\ op = "concurrent CreateCluster"
    /\ pc = "running"
    /\ options = [HostedCP |-> TRUE]
    /\ awsRoles \in ConcurrentRoleListings
    /\ calls = <<>>
    /\ steps = <<>>
    /\ okSteps = {}
    /\ attempts = 0
    /\ i = 1
    /\ predCalls = 0
    /\ clusterState = ""
    /\ clusterID = ""
    /\ oidcConfigID = ""
    /\ ensured = <<>>
    /\ cancelledAt = -1
    /\ ret = NoReturn
    /\ tmpDir = EmptyDir
    /\ flow = NoFlow
    /\ \E p2 \in ConcurrentProfiles, configs \in ConcurrentOidcListings :
          /\ invocations = << Invocation(1, "profile-1", configs),
                              Invocation(2, p2, configs) >>
          \* each provider's New has logged in with its credentials
          /\ environ \in { SetCredentials(invocations[p].credentials, NoEnviron) :
                             p \in Invocations }

\* createAccountRoles: accountRoles == nil after getAccountRoles
AccountRolesNil(p) ==
    getAccountRoles(FALSE, awsRoles, invocations[p].prefix, invocations[p].version).nil

\* createOIDCConfig: oidcConfig == nil after oidcConfigLookup
OidcConfigNil(p) ==
    oidcConfigLookup(FALSE, invocations[p].configs, invocations[p].prefix).nil

\* what CreateCluster runs once createAccountRoles has returned:
\* createOIDCConfig issues its command only when no config has the prefix
AfterAccountRoles(p) ==
    IF OidcConfigNil(p) THEN "oidc.setenv" ELSE "tf.new"

\* the statement after each os.Setenv of CallFuncWithCredentials
AfterSetenv ==
    [x \in {"roles.setenv", "rolesCreate.setenv", "rolesList.setenv", "oidc.setenv",
            "tf.setenv", "create.setenv", "describe.setenv"} |->
        CASE x = "roles.setenv"       -> "roles.run"
          [] x = "rolesCreate.setenv" -> "rolesCreate.run"
          [] x = "rolesList.setenv"   -> "rolesList.run"
          [] x = "oidc.setenv"        -> "oidc.run"
          [] x = "tf.setenv"          -> "tf.plan"
          [] x = "create.setenv"      -> "create.run"
          [] x = "describe.setenv"    -> "describe.run"]

\* the statement after the commands of createOIDCConfig and createCluster
AfterCommand ==
    [x \in {"oidc.run", "create.run"} |->
        CASE x = "oidc.run"   -> "tf.new"
          [] x = "create.run" -> "describe.setenv"]

\* CallFuncWithCredentials: os.Setenv of the credentials, before f runs
SetenvCredentials(p) ==
    /\ invocations[p].pc \in DOMAIN AfterSetenv
    /\ environ' = SetCredentials(invocations[p].credentials, environ)
    /\ invocations' = [invocations EXCEPT ![p].pc = AfterSetenv[invocations[p].pc]]
    /\ UNCHANGED <<awsRoles, tmpDir>>
    /\ UNCHANGED SequentialVars

\* f of getAccountRoles: `rosa list account-roles` runs with the credentials
\* the environment holds; called by createAccountRoles first, and again
\* inside f of the create command when it had found no roles
ListAccountRoles(p) ==
    /\ invocations[p].pc \in {"roles.run", "rolesList.run"}
    /\ invocations' = [invocations EXCEPT
          ![p].pc = IF invocations[p].pc = "roles.run" /\ AccountRolesNil(p)
                    THEN "rolesCreate.setenv"
                    ELSE AfterAccountRoles(p),
          ![p].usedProfiles = invocations[p].usedProfiles \cup {environ.AWS_PROFILE}]
    /\ UNCHANGED <<awsRoles, environ, tmpDir>>
    /\ UNCHANGED SequentialVars

\* f of createAccountRoles: `rosa create account-roles`, then getAccountRoles
CreateAccountRoles(p) ==
    /\ invocations[p].pc = "rolesCreate.run"
    /\ awsRoles' = awsRoles \o NewAccountRoles(invocations[p].prefix, invocations[p].version)
    /\ invocations' = [invocations EXCEPT
          ![p].pc = "rolesList.setenv",
          ![p].usedProfiles = invocations[p].usedProfiles \cup {environ.AWS_PROFILE}]
    /\ UNCHANGED <<environ, tmpDir>>
    /\ UNCHANGED SequentialVars

\* f of createOIDCConfig and createCluster: the rosa command runs with the
\* credentials the environment holds
RunRosaCommand(p) ==
    /\ invocations[p].pc \in DOMAIN AfterCommand
    /\ invocations' = [invocations EXCEPT
          ![p].pc = AfterCommand[invocations[p].pc],
          ![p].usedProfiles = invocations[p].usedProfiles \cup {environ.AWS_PROFILE}]
    /\ UNCHANGED <<awsRoles, environ, tmpDir>>
    /\ UNCHANGED SequentialVars

\* terraform.New(workingDir)
TerraformNew(p) ==
    /\ invocations[p].pc = "tf.new"
    /\ invocations' = [invocations EXCEPT ![p].pc = "tf.create"]
    /\ tmpDir' = [tmpDir EXCEPT !.tool = invocations[p].clusterName]
    /\ UNCHANGED <<awsRoles, environ>>
    /\ UNCHANGED SequentialVars

\* copyFile: os.Create(destFile) creates setup-vpc.tf or truncates the one
\* that is there
CopyFileCreate(p) ==
    /\ invocations[p].pc = "tf.create"
    /\ invocations' = [invocations EXCEPT ![p].pc = "tf.copy"]
    /\ tmpDir' = [tmpDir EXCEPT !.template = "truncated"]
    /\ UNCHANGED <<awsRoles, environ>>
    /\ UNCHANGED SequentialVars

\* copyFile: io.Copy(destReader, srcReader) writes the embedded template,
\* the same bytes for every call, from the start of the file
CopyFileCopy(p) ==
    /\ invocations[p].pc = "tf.copy"
    /\ invocations' = [invocations EXCEPT ![p].pc = "tf.init"]
    /\ tmpDir' = [tmpDir EXCEPT !.template = "complete"]
    /\ UNCHANGED <<awsRoles, environ>>
    /\ UNCHANGED SequentialVars

\* tf.Init(ctx)
TerraformInit(p) ==
    /\ invocations[p].pc = "tf.init"
    /\ invocations' = [invocations EXCEPT
          ![p].pc = "tf.setenv",
          ![p].partialTemplate = invocations[p].partialTemplate
                                    \/ tmpDir.template # "complete",
          ![p].toolMissing = invocations[p].toolMissing \/ tmpDir.tool = ""]
    /\ tmpDir' = [tmpDir EXCEPT !.init = "initialised"]
    /\ UNCHANGED <<awsRoles, environ>>
    /\ UNCHANGED SequentialVars

\* tf.Plan inside f: terraform runs with the credentials the environment
\* holds, reads the template and writes into the working directory
TerraformPlan(p) ==
    /\ invocations[p].pc = "tf.plan"
    /\ invocations' = [invocations EXCEPT
          ![p].pc = "tf.apply",
          ![p].usedProfiles = invocations[p].usedProfiles \cup {environ.AWS_PROFILE},
          ![p].partialTemplate = invocations[p].partialTemplate
                                    \/ tmpDir.template # "complete",
          ![p].toolMissing = invocations[p].toolMissing \/ tmpDir.tool = ""]
    /\ tmpDir' = [tmpDir EXCEPT !.state = invocations[p].clusterName]
    /\ UNCHANGED <<awsRoles, environ>>
    /\ UNCHANGED SequentialVars

\* tf.Apply inside f
TerraformApply(p) ==
    /\ invocations[p].pc = "tf.apply"
    /\ invocations' = [invocations EXCEPT
          ![p].pc = "tf.output",
          ![p].planOf = tmpDir.state,
          ![p].usedProfiles = invocations[p].usedProfiles \cup {environ.AWS_PROFILE},
          ![p].partialTemplate = invocations[p].partialTemplate
                                    \/ tmpDir.template # "complete",
          ![p].toolMissing = invocations[p].toolMissing \/ tmpDir.tool = ""]
    /\ tmpDir' = [tmpDir EXCEPT !.state = invocations[p].clusterName]
    /\ UNCHANGED <<awsRoles, environ>>
    /\ UNCHANGED SequentialVars

\* tf.Output inside f: the subnets are read from the state in the working directory
TerraformOutput(p) ==
    /\ invocations[p].pc = "tf.output"
    /\ invocations' = [invocations EXCEPT
          ![p].pc = "tf.uninstall",
          ![p].outputOf = tmpDir.state,
          ![p].toolMissing = invocations[p].toolMissing \/ tmpDir.tool = ""]
    /\ UNCHANGED <<awsRoles, environ, tmpDir>>
    /\ UNCHANGED SequentialVars

\* the deferred tf.Uninstall(ctx)
TerraformUninstall(p) ==
    /\ invocations[p].pc = "tf.uninstall"
    /\ invocations' = [invocations EXCEPT ![p].pc = "create.setenv"]
    /\ tmpDir' = [tmpDir EXCEPT !.tool = ""]
    /\ UNCHANGED <<awsRoles, environ>>
    /\ UNCHANGED SequentialVars

\* f of getClusterState: rosa describe cluster; the loop of
\* waitForClusterToBeReady goes on until the cluster is ready
DescribeCluster(p) ==
    /\ invocations[p].pc = "describe.run"
    /\ \E ready \in {r \in BOOLEAN : invocations[p].describes + 1 = MaxDescribes => r} :
          invocations' = [invocations EXCEPT
              ![p].pc = IF ready THEN "setKubeconfig" ELSE "describe.setenv",
              ![p].describes = invocations[p].describes + 1,
              ![p].usedProfiles = invocations[p].usedProfiles \cup {environ.AWS_PROFILE}]
    /\ UNCHANGED <<awsRoles, environ, tmpDir>>
    /\ UNCHANGED SequentialVars

\* waitForClusterHealthChecksToSucceed: os.Setenv("KUBECONFIG", kubeConfigFile)
SetenvKubeconfig(p) ==
    /\ invocations[p].pc = "setKubeconfig"
    /\ environ' = [environ EXCEPT !.KUBECONFIG = invocations[p].kubeConfigFile]
    /\ invocations' = [invocations EXCEPT ![p].pc = "newClient"]
    /\ UNCHANGED <<awsRoles, tmpDir>>
    /\ UNCHANGED SequentialVars

\* kubernetes.New(): config.GetConfig() loads the file KUBECONFIG names
NewKubernetesClient(p) ==
    /\ invocations[p].pc = "newClient"
    /\ invocations' = [invocations EXCEPT ![p].pc = "unsetKubeconfig",
                                          ![p].usedKubeconfig = environ.KUBECONFIG]
    /\ UNCHANGED <<awsRoles, environ, tmpDir>>
    /\ UNCHANGED SequentialVars

\* the deferred os.Unsetenv("KUBECONFIG")
UnsetenvKubeconfig(p) ==
    /\ invocations[p].pc = "unsetKubeconfig"
    /\ environ' = [environ EXCEPT !.KUBECONFIG = Unset]
    /\ invocations' = [invocations EXCEPT ![p].pc = "done"]
    /\ UNCHANGED <<awsRoles, tmpDir>>
    /\ UNCHANGED SequentialVars

ConcurrentNext ==
    \E p \in Invocations :
        \/ SetenvCredentials(p)
        \/ ListAccountRoles(p)
        \/ CreateAccountRoles(p)
        \/ RunRosaCommand(p)
        \/ TerraformNew(p)
        \/ CopyFileCreate(p)
        \/ CopyFileCopy(p)
        \/ TerraformInit(p)
        \/ TerraformPlan(p)
        \/ TerraformApply(p)
        \/ TerraformOutput(p)
        \/ TerraformUninstall(p)
        \/ DescribeCluster(p)
        \/ SetenvKubeconfig(p)
        \/ NewKubernetesClient(p)
        \/ UnsetenvKubeconfig(p)

ConcurrentSpec == ConcurrentInit /\ [][ConcurrentNext]_vars

----------------------------------------------------------------------------
(* Properties                                                              *)

StepsOf == { steps[k] : k \in 1..Len(steps) }

CallsOf == { calls[k] : k \in 1..Len(calls) }

\* where x stands in seq; x occurs in seq
Position(seq, x) == CHOOSE k \in 1..Len(seq) : seq[k] = x

\* how often x occurs in seq
Count(seq, x) == Cardinality({ k \in 1..Len(seq) : seq[k] = x })

\* x occurs in seq, and before every occurrence of y
Before(seq, x, y) ==
    \A k \in 1..Len(seq) : seq[k] = y => \E j \in 1..(k - 1) : seq[j] = x

ValidationFailed == <<"cluster options validation failed">>

ReadyTimeout == <<"failed to enter ready state in the alloted attempts">>

CreateOrder ==
    << "createAccountRoles", "createOIDCConfig", "createHostedControlPlaneVPC",
       "createCluster", "waitForClusterToBeReady", "waitForClusterHealthChecksToSucceed" >>

\* C1: in a hosted-control-plane CreateCluster the steps account roles, OIDC
\* config, VPC, cluster create, ready poll, health check are started in this
\* order, each at most once, and a step is started only when every step
\* before it in the order has been started earlier and has returned success.
C1_CreateStepsInOrder ==
    (op = "CreateCluster" /\ options.HostedCP) =>
        /\ \A j, k \in 1..Len(steps) : steps[j] = steps[k] => j = k
        /\ \A a, b \in 1..Len(CreateOrder) :
              (a < b /\ CreateOrder[b] \in StepsOf) =>
                  /\ CreateOrder[a] \in StepsOf
                  /\ Position(steps, CreateOrder[a]) < Position(steps, CreateOrder[b])
                  /\ CreateOrder[a] \in okSteps

C1_Witness ==
    /\ op = "CreateCluster" /\ options.HostedCP
    /\ pc = "done" /\ ret.err = NoErr
    /\ \A a \in 1..Len(CreateOrder) : CreateOrder[a] \in okSteps

\* C2: in a hosted-control-plane DeleteCluster that reaches the deletion of
\* the OIDC config, the operator roles and the OIDC provider were deleted
\* before it: both as steps started and as commands issued.
C2_OperatorRolesAndProviderBeforeOIDCConfig ==
    (op = "DeleteCluster" /\ options.HostedCP /\ "deleteOIDCConfig" \in StepsOf) =>
        /\ options.STS
        /\ Before(steps, "deleteOperatorRoles", "deleteOIDCConfig")
        /\ Before(steps, "deleteOIDCConfigProvider", "deleteOIDCConfig")
        /\ Before(calls, "rosa delete operator-roles", "rosa delete oidc-config")
        /\ Before(calls, "rosa delete oidc-provider", "rosa delete oidc-config")

C2_Witness ==
    /\ op = "DeleteCluster" /\ options.HostedCP
    /\ "rosa delete oidc-config" \in CallsOf
    /\ "deleteOIDCConfig" \in okSteps

\* C3: in DeleteCluster a step is started only when every step started before
\* it returned success; once a step has returned an error no further step is
\* started and DeleteCluster returns an error tagged "delete cluster failed".
C3_DeleteAbortsOnFirstError ==
    op = "DeleteCluster" =>
        /\ \A k \in 1..(Len(steps) - 1) : steps[k] \in okSteps
        /\ (Len(steps) > 0 /\ steps[Len(steps)] \notin okSteps) =>
              \/ pc = "waitDeleted" /\ steps[Len(steps)] = "waitForClusterToBeDeleted"
              \/ pc = "done" /\ HasPrefix(ret.err, <<"delete cluster failed">>)
        /\ (pc = "done" /\ ret.err = NoErr) => \A k \in 1..Len(steps) : steps[k] \in okSteps

C3_Witness ==
    /\ op = "DeleteCluster" /\ pc = "done"
    /\ Len(steps) = 4 /\ steps[4] = "deleteOperatorRoles"
    /\ "deleteOperatorRoles" \notin okSteps
    /\ ret.err # NoErr

DestroyCalls ==
    { "rosa delete account-roles", "rosa delete operator-roles", "rosa delete oidc-provider",
      "rosa delete oidc-config", "rosa delete cluster", "terraform destroy" }

DestroySteps ==
    { "deleteAccountRoles", "deleteOperatorRoles", "deleteOIDCConfigProvider",
      "deleteOIDCConfig", "deleteCluster", "deleteHostedControlPlaneVPC" }

\* C4: CreateCluster never invokes a delete, release or destroy operation,
\* whatever step fails and whatever was provisioned before the failure.
C4_CreateNeverRollsBack ==
    op = "CreateCluster" =>
        /\ CallsOf \cap DestroyCalls = {}
        /\ StepsOf \cap DestroySteps = {}

C4_Witness ==
    /\ op = "CreateCluster" /\ pc = "done" /\ ret.err # NoErr
    /\ "rosa create account-roles" \in CallsOf
    /\ "rosa create oidc-config" \in CallsOf
    /\ "terraform apply" \in CallsOf
    /\ "createHostedControlPlaneVPC" \in okSteps

\* C5: once createCluster has run, options with HostedCP set and an empty
\* OIDC config id or empty subnet ids, and more generally any options that
\* validateCreateClusterOptions rejects, have made it return an empty id and
\* the validation error without running the create command.
C5_ValidationErrorNeverRunsCreate ==
    (op \in {"CreateCluster", "createCluster"} /\ "createCluster" \in StepsOf) =>
        /\ (options.HostedCP /\ (options.oidcConfigID = "" \/ options.subnetIDs = <<>>)) =>
              /\ pc = "done" /\ ret.id = ""
              /\ Contains(ret.err, ValidationFailed)
              /\ "rosa create cluster" \notin CallsOf
        /\ validateCreateClusterOptions(options).err # NoErr =>
              /\ pc = "done" /\ ret.id = ""
              /\ Contains(ret.err, ValidationFailed)
              /\ "rosa create cluster" \notin CallsOf

C5_Witness ==
    /\ "createCluster" \in StepsOf /\ pc = "done"
    /\ options.HostedCP /\ options.ClusterName # <<>> /\ options.Version # <<>>
    /\ options.oidcConfigID = ""
    /\ Contains(ret.err, <<"oidc config id is required">>)

\* C6, as stated: a validation failure of CreateCluster is returned before
\* any external call has been made.
C6_ValidationBeforeAnyExternalCall ==
    (op = "CreateCluster" /\ pc = "done" /\ Contains(ret.err, ValidationFailed)) =>
        calls = <<>>

\* C6, amended: CreateCluster validates inside its cluster-create step. When
\* the options fail validation the call returns the validation error with an
\* empty id, the create command is not run and nothing runs afterwards; the
\* account-role listing (STS) and the OIDC lookup and network provisioning
\* (HostedCP) have been invoked by then, and only a call with neither flag
\* set has made no external call.
C6_ValidationBeforeCreateCommandOnly ==
    (op = "CreateCluster" /\ "createCluster" \in StepsOf
        /\ validateCreateClusterOptions(options).err # NoErr) =>
        /\ pc = "done"
        /\ ret = [id |-> "",
                  err |-> CreateError(Wrap("cluster options validation failed",
                                           validateCreateClusterOptions(options).err))]
        /\ steps[Len(steps)] = "createCluster"
        /\ CallsOf \cap {"rosa create cluster", "ocm list clusters", "ocm get credentials"} = {}
        /\ options.STS => "rosa list account-roles" \in CallsOf
        /\ options.HostedCP => {"ocm list oidc-configs", "terraform apply"} \subseteq CallsOf
        /\ ~options.STS => calls = <<>>

C6_Witness ==
    /\ op = "CreateCluster" /\ pc = "done"
    /\ options.ClusterName = <<>>
    /\ ret.err = CreateError(Wrap("cluster options validation failed",
                                  <<"cluster name is required">>))
    /\ "rosa create account-roles" \in CallsOf

\* C7, as stated: of two createAccountRoles calls in sequence with the same
\* prefix and version, the first returning no error and the second's listing
\* answering, the create command runs at most once in total and the second
\* call returns the first call's role set without running the create command.
C7_EnsureTwiceCreatesOnce ==
    (op = "createAccountRoles" /\ Len(ensured) = 2
        /\ ensured[1].err = NoErr /\ ~ensured[2].env.list1Fails) =>
        /\ Count(calls, "rosa create account-roles") <= 1
        /\ "rosa create account-roles" \notin { ensured[2].calls[k] : k \in 1..Len(ensured[2].calls) }
        /\ ensured[2].err = NoErr
        /\ ~ensured[2].nil
        /\ ensured[2].roles = ensured[1].roles

\* the roles of a listing that match prefix and version and are of one of the four types
MatchingRoles(listing, prefix, version) ==
    { k \in 1..Len(listing) :
        /\ HasPrefix(listing[k].RoleName, prefix)
        /\ listing[k].Version = version
        /\ listing[k].RoleType \in RoleTypes }

\* C8: a createAccountRoles call whose listing answers with 1, 2 or 3 roles
\* matching prefix and version fails with the does-not-exist error, returns
\* no role set and does not run the create command.
C8_PartialRoleSetIsAnError ==
    op = "createAccountRoles" => \A k \in 1..Len(ensured) :
        (/\ ~ensured[k].env.list1Fails
         /\ Cardinality(MatchingRoles(ensured[k].listed, options.prefix, options.version))
                \in 1..3) =>
            /\ ensured[k].err = <<"create account roles failed",
                                  "one or more prefixed account roles does not exist">>
            /\ ensured[k].nil
            /\ ensured[k].calls = <<"rosa list account-roles">>

C8_Witness ==
    /\ op = "createAccountRoles" /\ Len(ensured) >= 1
    /\ ~ensured[1].env.list1Fails
    /\ Cardinality(MatchingRoles(ensured[1].listed, options.prefix, options.version)) = 3
    /\ ensured[1].err # NoErr

\* C9, as stated: a role set that createAccountRoles returns without error
\* has its four members non-empty, whatever the listing.
C9_ReturnedRoleSetIsComplete ==
    op = "createAccountRoles" => \A k \in 1..Len(ensured) :
        (ensured[k].err = NoErr /\ ~ensured[k].nil) =>
            /\ ensured[k].roles.controlPlaneRoleARN # ""
            /\ ensured[k].roles.installerRoleARN # ""
            /\ ensured[k].roles.supportRoleARN # ""
            /\ ensured[k].roles.workerRoleARN # ""

\* C10: the ready poll with a budget of `attempts` describes the cluster once
\* per attempt; it returns the timeout error exactly when `attempts` describe
\* calls were made and none observed "ready", and returns success exactly
\* when the last describe call, the k-th for some k <= attempts, was the
\* first to observe "ready"; a describe call that does not observe "ready"
\* leaves the poll running or timed out, it never ends the poll otherwise.
C10_ReadyPollCountsAttempts ==
    op \in {"CreateCluster", "waitForClusterToBeReady"} =>
        /\ pc = "waitReady" =>
              /\ predCalls = i - 1 /\ predCalls <= attempts
              /\ clusterState # "ready"
        /\ (pc = "done" /\ Contains(ret.err, ReadyTimeout)) =>
              /\ predCalls = attempts
              /\ clusterState # "ready"
              /\ "waitForClusterToBeReady" \notin okSteps
        /\ "waitForClusterToBeReady" \in okSteps =>
              /\ clusterState = "ready"
              /\ predCalls \in 1..attempts /\ predCalls = i
              /\ ~Contains(ret.err, ReadyTimeout)
        /\ (op = "waitForClusterToBeReady" /\ pc = "done" /\ ret.err = NoErr) =>
              "waitForClusterToBeReady" \in okSteps
        /\ "waitForClusterToBeReady" \in StepsOf => pc # "panic"

C10_Witness ==
    /\ op = "waitForClusterToBeReady" /\ pc = "done"
    /\ ret.err = ReadyTimeout
    /\ attempts >= 2 /\ predCalls = attempts

\* C11: a describe call of the ready poll that fails (the poll then holds the
\* state "n/a") uses up one attempt and the loop goes on: the poll does not
\* return, neither with an error nor with success, because of it.
C11_DescribeErrorConsumesOneAttempt ==
    [][(pc = "waitReady" /\ predCalls' = predCalls + 1 /\ clusterState' = "n/a") =>
          /\ i' = i + 1
          /\ pc' = "waitReady"
          /\ ret' = ret
          /\ okSteps' = okSteps]_vars

C11_Witness ==
    /\ pc = "waitReady" /\ clusterState = "n/a"
    /\ predCalls >= 2 /\ i = predCalls + 1
    /\ "waitForClusterToBeReady" \notin okSteps

\* C12, as stated: the deletion poll returns success only after a lookup
\* that answered and found no cluster; a lookup that failed leaves the poll
\* running (or timed out), never successful.
C12_DeletedOnlyWhenLookupFindsNone ==
    op = "DeleteCluster" =>
        /\ "waitForClusterToBeDeleted" \in okSteps => clusterState = "not found"
        /\ clusterState = "lookup failed" => pc \in {"waitDeleted", "done"}

\* C13, as stated: once ctx is cancelled during a ready poll or a deletion
\* poll, the poll makes no further full attempt: at most the attempt in
\* flight at the cancellation completes, so at most one more predicate call
\* is made than had been made when ctx was cancelled.
C13_CancelledPollStopsPromptly ==
    Cancelled => predCalls <= cancelledAt + 1

\* C14: once CreateCluster or DeleteCluster has filled the defaults, options
\* with HostedCP set have STS set, and no later step changes either flag;
\* filling the defaults leaves STS as it was when HostedCP is not set.
C14_HostedCPImpliesSTS ==
    /\ []((op \in {"CreateCluster", "DeleteCluster"} /\ pc # "setDefaults"
              /\ options.HostedCP) => options.STS)
    /\ [][(op \in {"CreateCluster", "DeleteCluster"} /\ pc = "setDefaults"
              /\ ~options.HostedCP) =>
             (options'.STS = options.STS /\ ~options'.HostedCP)]_vars
    /\ [][(op \in {"CreateCluster", "DeleteCluster"} /\ pc # "setDefaults") =>
             (options'.STS = options.STS /\ options'.HostedCP = options.HostedCP)]_vars

C14_Witness ==
    /\ op = "CreateCluster" /\ pc = "done" /\ ret.err = NoErr
    /\ options.HostedCP /\ options.STS

\* C15: the ready poll of CreateCluster runs with a budget of 30 attempts
\* when HostedCP is set and of 120 otherwise, the deletion poll of
\* DeleteCluster with a budget of 30, and neither poll calls its predicate
\* more often than its budget.
C15_PollBudgets ==
    /\ (op = "CreateCluster" /\ (pc = "waitReady" \/ "waitForClusterToBeReady" \in StepsOf)) =>
          /\ attempts = IF options.HostedCP THEN 30 ELSE 120
          /\ predCalls <= attempts
    /\ (op = "DeleteCluster" /\ (pc = "waitDeleted" \/ "waitForClusterToBeDeleted" \in StepsOf)) =>
          /\ attempts = 30
          /\ predCalls <= attempts

C15_Witness ==
    /\ op = "CreateCluster" /\ ~options.HostedCP
    /\ pc = "done" /\ Contains(ret.err, ReadyTimeout)
    /\ predCalls = 120

\* C16: a hosted-control-plane CreateCluster with a name and a parseable version in
\* which every step started so far has returned success has not crashed, and
\* once it has returned, it has returned a non-empty cluster id and no error
\* after exactly one createAccountRoles, one createOIDCConfig, one
\* createHostedControlPlaneVPC and one createCluster (with one create
\* command), and at least one describe call of the ready poll.
C16_AllSucceedGivesClusterID ==
    (/\ op = "CreateCluster" /\ options.HostedCP
     /\ options.ClusterName # <<>> /\ NewVersion(options.Version).ok
     /\ StepsOf \subseteq okSteps) =>
        /\ pc # "panic"
        /\ pc = "done" =>
              /\ ret.err = NoErr /\ ret.id # ""
              /\ \A a \in 1..4 : Count(steps, CreateOrder[a]) = 1
              /\ Count(calls, "rosa create cluster") = 1
              /\ predCalls >= 1 /\ clusterState = "ready"

\* the positions of the listed OIDC configs whose secret ARN contains prefix
MatchingConfigs(configs, prefix) ==
    { k \in 1..Len(configs) : Contains(configs[k].SecretArn, prefix) }

\* C17: createOIDCConfig called with a prefix and an installer role lists the
\* OIDC configs first and once; when the listing succeeds and holds a config
\* whose secret ARN contains the prefix, it returns the id of the first such
\* config in list order, with no error and without running `rosa create
\* oidc-config`; the create command is run only when the listing succeeded
\* and held no such config.
C17_LookupBeforeCreate ==
    (/\ op = "createOIDCConfig" /\ pc = "done"
     /\ options.prefix # <<>> /\ options.installerRoleArn # "") =>
        LET e == ensured[1]
            m == MatchingConfigs(e.env.configs, options.prefix)
        IN  /\ calls # <<>> /\ calls[1] = "ocm list oidc-configs"
            /\ Count(calls, "ocm list oidc-configs") = 1
            /\ (~e.env.listFails /\ m # {}) =>
                  /\ ret.id = e.env.configs[CHOOSE k \in m : \A j \in m : k <= j].ID
                  /\ ret.err = NoErr
                  /\ "rosa create oidc-config" \notin CallsOf
            /\ "rosa create oidc-config" \in CallsOf => (~e.env.listFails /\ m = {})

C17_Witness ==
    /\ op = "createOIDCConfig" /\ pc = "done"
    /\ ~ensured[1].env.listFails
    /\ Cardinality(MatchingConfigs(ensured[1].env.configs, options.prefix)) = 2
    /\ ret.id = "oidc-c1x" /\ ret.err = NoErr
    /\ calls = <<"ocm list oidc-configs">>

\* C18: createOIDCConfig called with an empty prefix or an empty installer
\* role ARN returns an empty id and the error "some parameters are
\* undefined" without any external call: no listing, no create command, and
\* the process environment untouched.
C18_UndefinedParametersFailWithoutCalls ==
    (/\ op = "createOIDCConfig" /\ pc = "done"
     /\ (options.prefix = <<>> \/ options.installerRoleArn = "")) =>
        /\ calls = <<>> /\ ensured[1].calls = <<>>
        /\ ret.id = ""
        /\ ret.err = <<"create oidc config failed", "some parameters are undefined">>
        /\ environ \in ProviderEnvirons

C18_Witness ==
    /\ op = "createOIDCConfig" /\ pc = "done"
    /\ options.prefix # <<>> /\ options.installerRoleArn = ""
    /\ ensured[1].env.configs # <<>> /\ ~ensured[1].env.listFails
    /\ calls = <<>> /\ ret.err # NoErr

\* C19: in a hosted-control-plane DeleteCluster the OIDC config of the
\* cluster is resolved (the cluster GET has returned success) before the
\* delete of the cluster is started or its command issued; when the
\* resolution fails, DeleteCluster returns the error having issued the
\* cluster GET only: no delete step is started and no delete or destroy
\* command is run.
C19_ResolveOIDCConfigBeforeDelete ==
    (op = "DeleteCluster" /\ options.HostedCP /\ pc # "setDefaults") =>
        /\ "deleteCluster" \in StepsOf =>
              /\ "getClusterOIDCConfig" \in okSteps
              /\ Position(steps, "getClusterOIDCConfig") < Position(steps, "deleteCluster")
        /\ Before(calls, "ocm get cluster", "rosa delete cluster")
        /\ ("getClusterOIDCConfig" \in StepsOf /\ "getClusterOIDCConfig" \notin okSteps) =>
              /\ pc = "done" /\ ret.err # NoErr
              /\ steps = <<"getClusterOIDCConfig">>
              /\ calls = <<"ocm get cluster">>

C19_Witness ==
    /\ op = "DeleteCluster" /\ options.HostedCP /\ pc = "done"
    /\ "getClusterOIDCConfig" \in StepsOf /\ "getClusterOIDCConfig" \notin okSteps
    /\ ret.err = <<"delete cluster failed", "failed to retrieve cluster">>

\* C20: after CallFuncWithCredentials has returned, with the error of the
\* wrapped function or without one, the process environment is the one the
\* call found: AWS_REGION, AWS_PROFILE, AWS_ACCESS_KEY_ID and
\* AWS_SECRET_ACCESS_KEY hold no value the call has set.
C20_EnvironmentRestoredAfterCall ==
    (op = "CallFuncWithCredentials" /\ pc = "done") => environ = options.environ

TerraformCommands ==
    {"terraform init", "terraform plan", "terraform apply", "terraform output"}

\* C22: once createHostedControlPlaneVPC has run inside CreateCluster,
\* `terraform uninstall` has been called exactly once and after every other
\* terraform command of the call, whichever of template staging, init, plan,
\* apply and output failed or none; only when the construction of the
\* terraform runner itself failed has it not been called.
C22_UninstallOnceOnEveryExit ==
    (op = "CreateCluster" /\ "createHostedControlPlaneVPC" \in StepsOf) =>
        LET constructed ==
                ~(pc = "done" /\ ret.err = CreateError(<<"create hcp cluster vpc failed", "new">>))
        IN  /\ Count(calls, "terraform uninstall") = IF constructed THEN 1 ELSE 0
            /\ ~constructed => CallsOf \cap TerraformCommands = {}
            /\ \A c \in TerraformCommands : Before(calls, c, "terraform uninstall")
                                            \/ c \notin CallsOf
            /\ \A j, k \in 1..Len(calls) :
                  (calls[j] = "terraform uninstall" /\ calls[k] \in TerraformCommands) => k < j

C22_Witness ==
    /\ op = "CreateCluster" /\ pc = "done"
    /\ ret.err = CreateError(<<"create hcp cluster vpc failed", "plan">>)
    /\ Count(calls, "terraform uninstall") = 1
    /\ calls[Len(calls)] = "terraform uninstall"

\* the node list the last condition call of the node readiness poll received
LastListed == ensured[Len(ensured)]

HasReadyTrue(node) ==
    \E k \in 1..Len(node) : node[k].Type = "Ready" /\ node[k].Status = "True"

\* C23: hcpClusterInstallHealthChecks returns success only when the node
\* list its last condition call received was listed without error, is not
\* empty, and every node of it has a Ready condition with status True.
C23_SuccessOnlyWhenAllNodesReady ==
    (op = "hcpClusterInstallHealthChecks" /\ pc = "done" /\ ret.err = NoErr) =>
        /\ predCalls >= 1
        /\ LastListed.err = "none"
        /\ LastListed.items # <<>>
        /\ \A k \in 1..Len(LastListed.items) : HasReadyTrue(LastListed.items[k])

\* C24: in the node readiness poll a condition call that failed (the node
\* list request returned an error, or the list was empty) does not end the
\* poll: when the poll has returned after such a call, its window was used up.
C24_PredicateFailureDoesNotAbortPoll ==
    (/\ op = "hcpClusterInstallHealthChecks" /\ pc = "done" /\ predCalls >= 1
     /\ (LastListed.err # "none" \/ LastListed.items = <<>>)) =>
        /\ predCalls = attempts
        /\ ret.err = <<"hosted control plane cluster health check failed",
                       "context deadline exceeded">>

\* C25: createCluster queries the clusters only after the create command,
\* and, alone or as the step of CreateCluster, succeeds with the id of the
\* cluster only when the query reports exactly one record; when the query
\* fails or reports none or several, createCluster returns the error
\* "cluster not found" and an empty id, and so does CreateCluster.
C25_IdOnlyWhenExactlyOneRecord ==
    (op \in {"createCluster", "CreateCluster"} /\ "ocm list clusters" \in CallsOf) =>
        LET lookup == ensured[1]
        IN  /\ Before(calls, "rosa create cluster", "ocm list clusters")
            /\ (lookup.fails \/ lookup.total # 1) =>
                  /\ pc = "done" /\ ret.id = ""
                  /\ Contains(ret.err, <<"cluster not found">>)
                  /\ "createCluster" \notin okSteps
            /\ (~lookup.fails /\ lookup.total = 1) =>
                  /\ "createCluster" \in okSteps
                  /\ op = "createCluster" => (ret.id = "cluster-1" /\ ret.err = NoErr)
                  /\ op = "CreateCluster" => clusterID = "cluster-1"

C25_Witness ==
    /\ op = "CreateCluster" /\ pc = "done"
    /\ "ocm list clusters" \in CallsOf
    /\ ~ensured[1].fails /\ ensured[1].total = 2
    /\ ret.id = "" /\ ret.err = CreateError(<<"cluster not found">>)

\* the tags the error types of the sub-operations print for each action
CreateTags ==
    {"create cluster failed", "create account roles failed", "create oidc config failed",
     "create hcp cluster vpc failed"}

DeleteTags ==
    {"delete cluster failed", "delete account roles failed", "delete oidc config failed",
     "delete operator role failed", "delete hcp cluster vpc failed"}

\* C26: an error returned by CreateCluster starts with the tag "create
\* cluster failed" and wraps no error tagged as a delete; an error returned
\* by DeleteCluster starts with the tag "delete cluster failed" and wraps no
\* error tagged as a create: a failure of the VPC destroy is tagged "delete
\* hcp cluster vpc failed".
C26_ErrorsTaggedByStage ==
    /\ (op = "CreateCluster" /\ pc = "done" /\ ret.err # NoErr) =>
          /\ ret.err[1] = "create cluster failed"
          /\ \A k \in 1..Len(ret.err) : ret.err[k] \notin DeleteTags
    /\ (op = "DeleteCluster" /\ pc = "done" /\ ret.err # NoErr) =>
          /\ ret.err[1] = "delete cluster failed"
          /\ \A k \in 1..Len(ret.err) : ret.err[k] \notin CreateTags
          /\ "deleteHostedControlPlaneVPC" \in StepsOf \ okSteps =>
                ret.err[2] = "delete hcp cluster vpc failed"

\* C27: every call of createAccountRoles runs `rosa list account-roles`
\* exactly once, whether the roles exist, are created, or are a partial set.
C27_ListsRolesOncePerEnsure ==
    op = "createAccountRoles" =>
        \A k \in 1..Len(ensured) : Count(ensured[k].calls, "rosa list account-roles") = 1

\* C28: inside DeleteCluster, deleteOIDCConfig and deleteAccountRoles each
\* run their delete command once and nothing else: no OIDC config listing
\* and no account role listing precedes it; when the command fails the step
\* fails, and DeleteCluster returns that error.
C28_DeleteWithoutLookupAndErrorsReturned ==
    op = "DeleteCluster" =>
        /\ "ocm list oidc-configs" \notin CallsOf
        /\ "rosa list account-roles" \notin CallsOf
        /\ Count(calls, "rosa delete oidc-config") =
              IF "deleteOIDCConfig" \in StepsOf THEN 1 ELSE 0
        /\ Count(calls, "rosa delete account-roles") =
              IF "deleteAccountRoles" \in StepsOf THEN 1 ELSE 0
        /\ "deleteOIDCConfig" \in StepsOf \ okSteps =>
              /\ pc = "done"
              /\ ret.err = DeleteError(<<"delete oidc config failed", "command failed">>)
              /\ calls[Len(calls)] = "rosa delete oidc-config"
        /\ "deleteAccountRoles" \in StepsOf \ okSteps =>
              /\ pc = "done"
              /\ ret.err = DeleteError(<<"delete account roles failed", "command failed">>)
              /\ calls[Len(calls)] = "rosa delete account-roles"

C28_Witness ==
    /\ op = "DeleteCluster" /\ pc = "done"
    /\ "deleteOIDCConfig" \in okSteps
    /\ "deleteAccountRoles" \in StepsOf \ okSteps
    /\ ret.err = DeleteError(<<"delete account roles failed", "command failed">>)

\* C29: when every external call returns, every CreateCluster and every
\* DeleteCluster eventually returns, with success or with an error.
C29_CreateAndDeleteReturn ==
    (op \in {"CreateCluster", "DeleteCluster"}) => <>(pc = "done")

DeleteOrder ==
    << "getClusterOIDCConfig", "deleteCluster", "waitForClusterToBeDeleted",
       "deleteOperatorRoles", "deleteOIDCConfigProvider", "deleteOIDCConfig",
       "deleteHostedControlPlaneVPC", "deleteAccountRoles" >>

SupportingDeletes ==
    {"deleteOperatorRoles", "deleteOIDCConfigProvider", "deleteOIDCConfig",
     "deleteHostedControlPlaneVPC", "deleteAccountRoles"}

\* C30: in a hosted-control-plane DeleteCluster the steps started are always
\* a prefix of: resolve OIDC config, delete cluster, poll until deleted,
\* delete operator roles, delete OIDC provider, delete OIDC config, destroy
\* VPC, delete account roles; a DeleteCluster that returns success has
\* started all of them; no supporting resource is deleted before the poll
\* has returned success, and the account roles delete is the last command.
C30_HostedDeleteOrder ==
    (op = "DeleteCluster" /\ options.HostedCP) =>
        /\ Len(steps) <= Len(DeleteOrder)
        /\ steps = SubSeq(DeleteOrder, 1, Len(steps))
        /\ (pc = "done" /\ ret.err = NoErr) =>
              /\ steps = DeleteOrder
              /\ calls[Len(calls)] = "rosa delete account-roles"
        /\ StepsOf \cap SupportingDeletes # {} => "waitForClusterToBeDeleted" \in okSteps
        /\ \A c \in DestroyCalls \ {"rosa delete cluster"} :
              c \in CallsOf => "waitForClusterToBeDeleted" \in okSteps
        /\ "rosa delete account-roles" \in CallsOf =>
              /\ calls[Len(calls)] = "rosa delete account-roles"
              /\ (DestroyCalls \ {"rosa delete account-roles"}) \subseteq CallsOf

C30_Witness ==
    /\ op = "DeleteCluster" /\ options.HostedCP
    /\ pc = "done" /\ ret.err = NoErr
    /\ steps = DeleteOrder
    /\ clusterState = "not found"

\* C21: of two CreateCluster calls for different clusters running
\* concurrently, neither observes what the other wrote: its commands run
\* with its own AWS_PROFILE, its terraform commands find the tool it
\* installed and the template complete as it staged it, tf.Apply finds the
\* plan and tf.Output the state of its own cluster, and its kubernetes
\* client loads its own kubeconfig file.
C21_ConcurrentInvocationsShareNoState ==
    \A p \in 1..Len(invocations) :
        /\ invocations[p].usedProfiles \subseteq {invocations[p].credentials.Profile}
        /\ ~invocations[p].toolMissing
        /\ ~invocations[p].partialTemplate
        /\ invocations[p].planOf \in {"", invocations[p].clusterName}
        /\ invocations[p].outputOf \in {"", invocations[p].clusterName}
        /\ invocations[p].usedKubeconfig \in {"", invocations[p].kubeConfigFile}

\* C31: the conditional steps follow the flags as the defaults left them.
\* CreateCluster calls createAccountRoles only with STS set and
\* createOIDCConfig and createHostedControlPlaneVPC only with HostedCP set,
\* and once it is past each block it has called them exactly when the flag
\* is set; DeleteCluster calls getClusterOIDCConfig, deleteOIDCConfig and
\* deleteHostedControlPlaneVPC only with HostedCP set and
\* deleteOperatorRoles, deleteOIDCConfigProvider and deleteAccountRoles only
\* with STS set, and a DeleteCluster that returned success has called
\* exactly the steps of the flags set.
C31_ConditionalStepsFollowFlags ==
    /\ (op = "CreateCluster" /\ pc # "setDefaults") =>
          /\ "createAccountRoles" \in StepsOf => options.STS
          /\ {"createOIDCConfig", "createHostedControlPlaneVPC"} \cap StepsOf # {}
                => options.HostedCP
          /\ pc \in {"oidcConfig", "vpc", "createCluster", "waitReady", "kubeConfig",
                     "healthChecks"} =>
                ("createAccountRoles" \in StepsOf <=> options.STS)
          /\ pc \in {"vpc", "createCluster", "waitReady", "kubeConfig", "healthChecks"} =>
                ("createOIDCConfig" \in StepsOf <=> options.HostedCP)
          /\ pc \in {"createCluster", "waitReady", "kubeConfig", "healthChecks"} =>
                ("createHostedControlPlaneVPC" \in StepsOf <=> options.HostedCP)
    /\ (op = "DeleteCluster" /\ pc # "setDefaults") =>
          /\ {"getClusterOIDCConfig", "deleteOIDCConfig", "deleteHostedControlPlaneVPC"}
                \cap StepsOf # {} => options.HostedCP
          /\ {"deleteOperatorRoles", "deleteOIDCConfigProvider", "deleteAccountRoles"}
                \cap StepsOf # {} => options.STS
          /\ (pc = "done" /\ ret.err = NoErr) =>
                /\ ({"getClusterOIDCConfig", "deleteOIDCConfig", "deleteHostedControlPlaneVPC"}
                      \subseteq StepsOf) <=> options.HostedCP
                /\ ({"deleteOperatorRoles", "deleteOIDCConfigProvider", "deleteAccountRoles"}
                      \subseteq StepsOf) <=> options.STS

C31_Witness ==
    /\ op = "DeleteCluster" /\ pc = "done" /\ ret.err = NoErr
    /\ options.STS /\ ~options.HostedCP
    /\ steps = <<"deleteCluster", "waitForClusterToBeDeleted", "deleteOperatorRoles",
                 "deleteOIDCConfigProvider", "deleteAccountRoles">>

\* C32: in a hosted-control-plane CreateCluster the installer role ARN
\* handed to createOIDCConfig is the one of the role set createAccountRoles
\* returned in this call, and the `rosa create cluster` command carries the
\* OIDC config id createOIDCConfig returned and the subnet pair
\* "<private>,<public>" of the VPC createHostedControlPlaneVPC returned.
C32_CreateCommandCarriesReturnedValues ==
    (op = "CreateCluster" /\ options.HostedCP) =>
        /\ "createOIDCConfig" \in StepsOf =>
              /\ "createAccountRoles" \in okSteps
              /\ flow.installerRoleArn = flow.accountRoles.installerRoleARN
        /\ "rosa create cluster" \in CallsOf =>
              /\ flow.args[1].hostedCP
              /\ flow.args[1].roleArn = flow.accountRoles.installerRoleARN
              /\ flow.args[1].oidcConfigID = flow.oidcConfigID
              /\ flow.args[1].subnetIDs =
                    flow.vpc.privateSubnet \o <<",">> \o flow.vpc.publicSubnet

C32_Witness ==
    /\ op = "CreateCluster" /\ options.HostedCP
    /\ "rosa create cluster" \in CallsOf
    /\ flow.args[1].oidcConfigID = "oidc-new"
    /\ flow.args[1].subnetIDs = <<"p", "1", ",", "q", "1">>
    /\ flow.args[1].roleArn # ""

\* C33: in a hosted-control-plane DeleteCluster that has called
\* deleteOIDCConfig, the id handed to it is the one getClusterOIDCConfig
\* resolved, once and before the cluster delete was submitted, and that id
\* is not empty.
C33_ResolvedOIDCConfigIDIsDeleted ==
    (op = "DeleteCluster" /\ options.HostedCP /\ "deleteOIDCConfig" \in StepsOf) =>
        /\ Count(calls, "ocm get cluster") = 1
        /\ Before(calls, "ocm get cluster", "rosa delete cluster")
        /\ "getClusterOIDCConfig" \in okSteps
        /\ oidcConfigID # ""

\* C34: a createAccountRoles call that returns no error returns a role set,
\* and CreateCluster never goes on without one (never dereferences a nil
\* role set).
C34_SuccessCarriesARoleSet ==
    /\ op = "createAccountRoles" =>
          \A k \in 1..Len(ensured) : ensured[k].err = NoErr => ~ensured[k].nil
    /\ op = "CreateCluster" =>
          ~(pc = "panic" /\ steps = <<"createAccountRoles">>)

\* C35, as stated: a CreateCluster with neither STS nor HostedCP never runs
\* the create command and returns an empty id with the validation error
\* "iam role arn for control plane is required".
C35_NonSTSCreateFailsOnControlPlaneRole ==
    (op = "CreateCluster" /\ ~options.STS /\ ~options.HostedCP) =>
        /\ "rosa create cluster" \notin CallsOf
        /\ pc = "done" =>
              /\ ret.id = ""
              /\ ret.err = CreateError(Wrap("cluster options validation failed",
                               <<"iam role arn for control plane is required">>))

\* C35, amended: a CreateCluster with neither STS nor HostedCP makes no
\* external call at all, never runs the create command, and returns an
\* empty id with a validation error: "cluster name is required" when the name
\* is empty, else "version is required" when the version is empty, else
\* "iam role arn for control plane is required".
C35_NonSTSCreateAlwaysFailsValidation ==
    (op = "CreateCluster" /\ ~options.STS /\ ~options.HostedCP) =>
        /\ calls = <<>>
        /\ StepsOf \subseteq {"createCluster"}
        /\ okSteps = {}
        /\ pc \in {"setDefaults", "accountRoles", "oidcConfig", "createCluster", "done"}
        /\ pc = "done" =>
              /\ ret.id = ""
              /\ ret.err = CreateError(Wrap("cluster options validation failed",
                    IF options.ClusterName = <<>> THEN <<"cluster name is required">>
                    ELSE IF options.Version = <<>> THEN <<"version is required">>
                    ELSE <<"iam role arn for control plane is required">>))

C35_Witness ==
    /\ op = "CreateCluster" /\ ~options.STS /\ ~options.HostedCP
    /\ pc = "done" /\ steps = <<"createCluster">>
    /\ options.ClusterName # <<>> /\ options.Version # <<>>
    /\ Contains(ret.err, <<"iam role arn for control plane is required">>)

\* C36: a CreateCluster that returned, returned an empty id with an error
\* when createCluster or a step before it failed; the non-empty id
\* createCluster resolved, with an error, when the ready poll, the
\* kubeconfig retrieval or the health check failed; and that id without an
\* error only when the health check has succeeded.
C36_IdReturnedOnceClusterSubmitted ==
    (op = "CreateCluster" /\ pc = "done") =>
        /\ "createCluster" \notin okSteps => (ret.id = "" /\ ret.err # NoErr)
        /\ "createCluster" \in okSteps =>
              /\ ret.id # "" /\ ret.id = clusterID
              /\ ret.err # NoErr =>
                    /\ steps[Len(steps)] \in {"waitForClusterToBeReady", "KubeConfigFile",
                                              "waitForClusterHealthChecksToSucceed"}
                    /\ steps[Len(steps)] \notin okSteps
        /\ ret.err = NoErr =>
              /\ ret.id # ""
              /\ "waitForClusterHealthChecksToSucceed" \in okSteps

C36_Witness ==
    /\ op = "CreateCluster" /\ pc = "done"
    /\ "KubeConfigFile" \in StepsOf \ okSteps
    /\ ret.id = "cluster-1" /\ ret.err = CreateError(<<"failed to get credentials">>)

\* C37: a DeleteCluster called with an empty ClusterID, with HostedCP set or
\* not, starts no step but the OIDC config resolution and deleteCluster,
\* runs no delete or destroy command, and returns an error.
C37_EmptyClusterIDDeletesNothing ==
    (op = "DeleteCluster" /\ options.ClusterID = "") =>
        /\ CallsOf \cap DestroyCalls = {}
        /\ CallsOf \subseteq {"ocm get cluster"}
        /\ StepsOf \subseteq {"getClusterOIDCConfig", "deleteCluster"}
        /\ "deleteCluster" \notin okSteps
        /\ pc = "done" => ret.err # NoErr

C37_Witness ==
    /\ op = "DeleteCluster" /\ options.ClusterID = "" /\ options.HostedCP
    /\ pc = "done" /\ steps = <<"getClusterOIDCConfig", "deleteCluster">>
    /\ ret.err = DeleteError(<<"cluster ID is undefined and is required">>)

\* C38: OCMUpgrade returns success only when it has seen the history of the
\* upgrade version in phase Upgraded; once it has seen it, it has returned;
\* and when the 1080 attempts are used up without seeing it, it returns an
\* error.
C38_UpgradeSucceedsOnlyWhenUpgraded ==
    op = "OCMUpgrade" =>
        /\ (pc = "done" /\ ret.err = NoErr) => "Upgraded" \in okSteps
        /\ "Upgraded" \in okSteps => (pc = "done" /\ ret.err = NoErr)
        /\ (pc = "done" /\ i > upgradeMaxAttempts /\ "Upgraded" \notin okSteps) =>
              ret.err # NoErr

\* the version gate addGateAgreement resolves for the upgrade, "" when none
C39_Gate == FirstVersionGate(options.versionGates, GateVersion(options.upgradeVersion))

\* the k-th call sent the request that adds the agreement
C39_Added(k) ==
    \E n \in 1..Len(ensured[k].calls) :
        ensured[k].calls[n] = AddGateAgreement(options.clusterID, C39_Gate)

\* every request of the k-th call is a lookup: nothing is added
C39_NoAdd(k) ==
    \A n \in 1..Len(ensured[k].calls) :
        ensured[k].calls[n] \in {ListVersionGates, ListGateAgreements(options.clusterID),
                                 GetVersionGate(C39_Gate)}

\* C39: addGateAgreement adds a gate agreement to the cluster only when the
\* minor version of the upgrade is above the current one and the cluster has
\* no agreement for the version gate of the upgrade; for a z-stream upgrade
\* it sends nothing and succeeds; when its lookups find the agreement on the
\* cluster it adds nothing and succeeds, so a second call after a call that
\* added the agreement adds nothing.
C39_GateAgreementAddedOnce ==
    op = "addGateAgreement" =>
        \A k \in 1..Len(ensured) :
            LET e == ensured[k]
                present == \E n \in 1..Len(e.before) : e.before[n] = C39_Gate
                zstream == /\ options.currentVersion.major = options.upgradeVersion.major
                           /\ options.currentVersion.minor = options.upgradeVersion.minor
            IN  /\ C39_Added(k) =>
                      /\ options.currentVersion.minor < options.upgradeVersion.minor
                      /\ C39_Gate # ""
                      /\ ~present
                /\ ~C39_Added(k) => (C39_NoAdd(k) /\ e.after = e.before)
                /\ zstream => (e.calls = <<>> /\ e.err = NoErr)
                /\ (present /\ e.failure \notin {"versionGates", "gateAgreements"}) =>
                      (~C39_Added(k) /\ e.err = NoErr)
                /\ (k = 2 /\ C39_Added(1) /\ ensured[1].err = NoErr) => ~C39_Added(2)

\* both calls succeed for a minor upgrade: the first adds the agreement, the
\* second finds it and adds nothing
C39_Witness ==
    /\ op = "addGateAgreement" /\ pc = "done"
    /\ Len(ensured) = 2
    /\ options.currentVersion.minor < options.upgradeVersion.minor
    /\ C39_Added(1) /\ ensured[1].err = NoErr
    /\ ~C39_Added(2) /\ ensured[2].err = NoErr
    /\ ensured[2].calls = <<ListVersionGates, ListGateAgreements(options.clusterID)>>

\* C40: while waitForClusterHealthChecksToSucceed builds its client and runs
\* the check, KUBECONFIG names the kubeconfig file of the cluster; once it
\* has returned, whether the client could not be built, the check failed or
\* the check passed, KUBECONFIG is unset.
C40_KubeconfigUnsetOnEveryExit ==
    op = "CreateCluster" =>
        /\ pc = "healthChecking" => environ.KUBECONFIG = KubeConfigFilename(clusterID)
        /\ ("waitForClusterHealthChecksToSucceed" \in StepsOf /\ pc \in {"done", "panic"}) =>
              environ.KUBECONFIG = Unset

\* the call returned because the client could not be built
C40_Witness ==
    /\ op = "CreateCluster" /\ pc = "done"
    /\ "waitForClusterHealthChecksToSucceed" \in StepsOf
    /\ ret.err = CreateError(<<"failed to construct kubernetes client">>)
    /\ environ.KUBECONFIG = Unset

====
